---------------------------- MODULE Spec2Model ----------------------------
(***************************************************************************)
(* A model of the bank ledger of utselmeg/hw1-327: Bank (BankClass.py),    *)
(* Account / SavingsAccount / CheckingAccount (AccountClass.py),           *)
(* Transaction (TransactionClass.py), AccountType (AccountType.py) and the *)
(* exceptions of CustomException.py.                                       *)
(*                                                                         *)
(* Money is Python's decimal.Decimal under the default context (28         *)
(* significant digits, ROUND_HALF_EVEN).  It is modelled digit by digit,   *)
(* because the coefficients (Decimal(0.08) has 55 digits) do not fit a     *)
(* machine integer.  Dates are datetime.date values.                       *)
(***************************************************************************)
EXTENDS Integers, Sequences, FiniteSets, TLC

(***************************************************************************)
(* decimal.Decimal                                                         *)
(*                                                                         *)
(* A Decimal is [sign, coef, exp]: value = (-1)^sign * coef * 10^exp.      *)
(* coef is the sequence of decimal digits, least significant first.  The   *)
(* model keeps every Decimal in canonical form (no leading and no trailing *)
(* zero digit, zero is [0, <<>>, 0]), so that two Decimals are the same    *)
(* value of the model exactly when Python's == holds between them.         *)
(***************************************************************************)

\* decimal.getcontext().prec, the default context every operation rounds to
Prec == 28

Digit == 0..9

RECURSIVE StripLow(_, _)
\* drop the zero digits at the low end of coef, raising the exponent
StripLow(coef, exp) ==
    IF coef = <<>> THEN [coef |-> <<>>, exp |-> 0]
    ELSE IF Head(coef) = 0 THEN StripLow(Tail(coef), exp + 1)
    ELSE [coef |-> coef, exp |-> exp]

RECURSIVE StripHigh(_)
\* drop the zero digits at the high end of coef
StripHigh(coef) ==
    IF coef = <<>> THEN <<>>
    ELSE IF coef[Len(coef)] = 0 THEN StripHigh(SubSeq(coef, 1, Len(coef) - 1))
    ELSE coef

\* the canonical Decimal of sign, coefficient and exponent
Canon(sign, coef, exp) ==
    LET s == StripLow(StripHigh(coef), exp)
    IN  IF s.coef = <<>> THEN [sign |-> 0, coef |-> <<>>, exp |-> 0]
        ELSE [sign |-> sign, coef |-> s.coef, exp |-> s.exp]

DecZero == [sign |-> 0, coef |-> <<>>, exp |-> 0]

RECURSIVE NatDigits(_)
\* the digits of a natural number, least significant first
NatDigits(n) == IF n = 0 THEN <<>> ELSE <<n % 10>> \o NatDigits(n \div 10)

\* Decimal("<n>E<exp>") for a machine integer n: the exact value n * 10^exp
DecOf(n, exp) ==
    IF n < 0 THEN Canon(1, NatDigits(-n), exp) ELSE Canon(0, NatDigits(n), exp)

Zeros(k) == [i \in 1..k |-> 0]

RECURSIVE AddDigits(_, _, _)
\* a + b + carry on digit sequences
AddDigits(a, b, carry) ==
    IF a = <<>> /\ b = <<>> THEN (IF carry = 0 THEN <<>> ELSE <<carry>>)
    ELSE LET x == IF a = <<>> THEN 0 ELSE Head(a)
             y == IF b = <<>> THEN 0 ELSE Head(b)
             s == x + y + carry
         IN  <<s % 10>> \o AddDigits(IF a = <<>> THEN a ELSE Tail(a),
                                     IF b = <<>> THEN b ELSE Tail(b),
                                     s \div 10)

RECURSIVE SubDigits(_, _, _)
\* a - b - borrow on digit sequences, for a >= b + borrow
SubDigits(a, b, borrow) ==
    IF a = <<>> THEN <<>>
    ELSE LET y == IF b = <<>> THEN 0 ELSE Head(b)
             s == Head(a) - y - borrow
         IN  <<(s + 10) % 10>> \o SubDigits(Tail(a),
                                           IF b = <<>> THEN b ELSE Tail(b),
                                           IF s < 0 THEN 1 ELSE 0)

RECURSIVE CmpFrom(_, _, _)
\* compare two digit sequences of equal length from digit i downwards
CmpFrom(a, b, i) ==
    IF i = 0 THEN 0
    ELSE IF a[i] < b[i] THEN -1
    ELSE IF a[i] > b[i] THEN 1
    ELSE CmpFrom(a, b, i - 1)

\* -1, 0, 1 as a < b, a = b, a > b, for digit sequences without leading zeros
CmpDigits(a, b) ==
    IF Len(a) < Len(b) THEN -1
    ELSE IF Len(a) > Len(b) THEN 1
    ELSE CmpFrom(a, b, Len(a))

RECURSIVE ColSum(_, _, _, _)
\* the sum of the digit products a[j] * b[k + 1 - j], j = 1..i, that fall in
\* column k of the schoolbook product
ColSum(a, b, k, i) ==
    IF i = 0 THEN 0
    ELSE (IF k + 1 - i >= 1 /\ k + 1 - i <= Len(b) THEN a[i] * b[k + 1 - i] ELSE 0)
         + ColSum(a, b, k, i - 1)

RECURSIVE Carry(_, _, _)
\* the digits of a sequence of column sums, carries propagated upwards
Carry(cols, k, carry) ==
    IF k > Len(cols) THEN NatDigits(carry)
    ELSE LET s == cols[k] + carry
         IN  <<s % 10>> \o Carry(cols, k + 1, s \div 10)

\* a * b on digit sequences (schoolbook)
MulDigits(a, b) ==
    Carry([k \in 1..(Len(a) + Len(b)) |-> ColSum(a, b, k, Len(a))], 1, 0)

\* does the sequence hold a nonzero digit
AnyNonZero(s) == \E i \in 1..Len(s) : s[i] # 0

\* the context's rounding: to Prec significant digits, ROUND_HALF_EVEN
RoundPrec(sign, coef, exp) ==
    LET c == StripHigh(coef)
        k == Len(c) - Prec
    IN  IF k <= 0 THEN Canon(sign, c, exp)
        ELSE LET kept  == SubSeq(c, k + 1, Len(c))
                 top   == c[k]
                 below == SubSeq(c, 1, k - 1)
                 up    == \/ top > 5
                          \/ top = 5 /\ AnyNonZero(below)
                          \/ top = 5 /\ ~AnyNonZero(below) /\ kept[1] % 2 = 1
             IN  Canon(sign,
                       IF up THEN AddDigits(kept, <<1>>, 0) ELSE kept,
                       exp + k)

\* a's coefficient written at exponent e <= a.exp
ShiftTo(a, e) == IF a.coef = <<>> THEN <<>> ELSE Zeros(a.exp - e) \o a.coef

MinExp(a, b) ==
    IF a.coef = <<>> THEN b.exp
    ELSE IF b.coef = <<>> THEN a.exp
    ELSE IF a.exp < b.exp THEN a.exp ELSE b.exp

\* the exact sum of two Decimals, before the context rounds it
ExactAdd(a, b) ==
    LET e == MinExp(a, b)
        x == ShiftTo(a, e)
        y == ShiftTo(b, e)
        c == CmpDigits(x, y)
    IN  IF a.sign = b.sign THEN [sign |-> a.sign, coef |-> AddDigits(x, y, 0), exp |-> e]
        ELSE IF c = 0 THEN DecZero
        ELSE IF c > 0 THEN [sign |-> a.sign, coef |-> SubDigits(x, y, 0), exp |-> e]
        ELSE [sign |-> b.sign, coef |-> SubDigits(y, x, 0), exp |-> e]

\* Decimal.__add__: the sum rounded to the context
DecAdd(a, b) ==
    LET s == ExactAdd(a, b)
    IN  RoundPrec(s.sign, s.coef, s.exp)

DecNeg(a) == IF a.coef = <<>> THEN a ELSE [a EXCEPT !.sign = 1 - a.sign]

\* Decimal.__mul__: the product rounded to the context
DecMul(a, b) ==
    RoundPrec((a.sign + b.sign) % 2,
              MulDigits(a.coef, b.coef),
              a.exp + b.exp)

\* Decimal.__truediv__ by a power of ten (the only divisor the program uses,
\* Decimal(100)): the coefficient is unchanged and the exponent drops
DecDivPow10(a, b) == RoundPrec((a.sign + b.sign) % 2, a.coef, a.exp - b.exp)

\* Decimal.__lt__: an exact comparison, no rounding
DecLess(a, b) ==
    LET d == ExactAdd(a, DecNeg(b))
    IN  d.sign = 1 /\ StripHigh(d.coef) # <<>>

(***************************************************************************)
(* datetime.date                                                           *)
(*                                                                         *)
(* A date is the integer year * 10000 + month * 100 + day, so that the     *)
(* order of dates is the order of the integers.                            *)
(***************************************************************************)

date(y, m, d) == (y * 10000) + (m * 100) + d

\* datetime.MAXYEAR: date(year, month, day) raises ValueError beyond it
MAXYEAR == 9999

\* the outcome of a date(...) that raised ValueError (year out of range)
OutOfRange == -1

Year(dt) == dt \div 10000

Month(dt) == (dt \div 100) % 100

Day(dt) == dt % 100

IsLeap(y) == (y % 4 = 0 /\ y % 100 # 0) \/ y % 400 = 0

DaysInMonth(y, m) ==
    IF m = 2 THEN (IF IsLeap(y) THEN 29 ELSE 28)
    ELSE IF m \in {4, 6, 9, 11} THEN 30
    ELSE 31

\* dt - timedelta(days=1)
MinusOneDay(dt) ==
    IF Day(dt) > 1 THEN date(Year(dt), Month(dt), Day(dt) - 1)
    ELSE IF Month(dt) > 1
         THEN date(Year(dt), Month(dt) - 1, DaysInMonth(Year(dt), Month(dt) - 1))
    ELSE date(Year(dt) - 1, 12, 31)

(***************************************************************************)
(* CustomException.py, and the built-in exceptions the Bank raises         *)
(***************************************************************************)

\* no date: the latest_date of an exception that carries none
NoDate == 0

\* the call returned normally
NoError == [type |-> "none", latest_date |-> NoDate, detail |-> ""]

OverdrawError == [type |-> "OverdrawError", latest_date |-> NoDate, detail |-> ""]

\* TransactionSequenceError(latest_date, error_type)
TransactionSequenceError(latest_date, error_type) ==
    [type |-> "TransactionSequenceError", latest_date |-> latest_date,
     detail |-> error_type]

\* TransactionLimitError(limit_type)
TransactionLimitError(limit_type) ==
    [type |-> "TransactionLimitError", latest_date |-> NoDate, detail |-> limit_type]

\* ValueError(f"Invalid account type: {type_str}")
ValueError == [type |-> "ValueError", latest_date |-> NoDate, detail |-> ""]

\* AttributeError(message), raised by the Bank or by Python
AttributeError(message) ==
    [type |-> "AttributeError", latest_date |-> NoDate, detail |-> message]

\* the message of select_account for a number the Bank does not hold
InvalidAccountNumber == "Invalid account number."

\* the message of list_transactions and interest_and_fees without a selection
RequiresSelection == "This command requires that you first select an account."

\* the message of Python for self._selected.account_number on None
NoneHasNoAccountNumber == "'NoneType' object has no attribute 'account_number'"

(***************************************************************************)
(* TransactionClass.py                                                     *)
(***************************************************************************)

DEPOSIT == "Deposit"

WITHDRAWAL == "Withdrawal"

INTEREST == "Interest"

FEE == "Fee"

\* Transaction.__init__
Transaction(account_number, transaction_date, amount, transaction_type) ==
    [account_number |-> account_number, date |-> transaction_date,
     amount |-> amount, transaction_type |-> transaction_type]

\* Transaction.get_last_transaction: max(transactions, key=date), which is the
\* first transaction of maximal date; only called here on a non-empty list
get_last_transaction(transactions) ==
    LET i == CHOOSE i \in 1..Len(transactions) :
                 /\ \A j \in 1..Len(transactions) :
                        transactions[j].date <= transactions[i].date
                 /\ \A j \in 1..(i - 1) :
                        transactions[j].date < transactions[i].date
    IN  transactions[i]

\* Transaction.last_day_of_month; date(year + 1, 1, 1) raises ValueError for a
\* date of December of MAXYEAR
last_day_of_month(transaction_date) ==
    LET next_year == Year(transaction_date) + (Month(transaction_date) \div 12)
        first_of_next_month == date(next_year, (Month(transaction_date) % 12) + 1, 1)
    IN  IF next_year > MAXYEAR THEN OutOfRange
        ELSE MinusOneDay(first_of_next_month)

\* a variant that validates nothing
validate_transaction_off(transactions, new_transaction) == NoError

\* a variant that also rejects the date of the last transaction
validate_transaction_strict(transactions, new_transaction) ==
    IF transactions = <<>> THEN NoError
    ELSE LET last_transaction == get_last_transaction(transactions)
         IN  IF last_transaction.date >= new_transaction.date
             THEN TransactionSequenceError(last_transaction.date, "sequence")
             ELSE NoError

\* a variant that looks only at the deposits and withdrawals of the history
validate_transaction_user_only(transactions, new_transaction) ==
    LET IsUser(t) == t.transaction_type \in {DEPOSIT, WITHDRAWAL}
        users == SelectSeq(transactions, IsUser)
    IN  IF users = <<>> THEN NoError
        ELSE LET last_transaction == get_last_transaction(users)
             IN  IF last_transaction.date > new_transaction.date
                 THEN TransactionSequenceError(last_transaction.date, "sequence")
                 ELSE NoError

\* a variant that compares with the first transaction of the history
validate_transaction_first(transactions, new_transaction) ==
    IF transactions = <<>> THEN NoError
    ELSE LET last_transaction == transactions[1]
         IN  IF last_transaction.date > new_transaction.date
             THEN TransactionSequenceError(last_transaction.date, "sequence")
             ELSE NoError

\* Transaction.validate_transaction: the exception it raises, or NoError
validate_transaction(transactions, new_transaction) ==
    IF transactions = <<>> THEN NoError
    ELSE LET last_transaction == get_last_transaction(transactions)
         IN  IF last_transaction.date > new_transaction.date
             THEN TransactionSequenceError(last_transaction.date, "sequence")
             ELSE NoError

(***************************************************************************)
(* AccountType.py                                                          *)
(***************************************************************************)

CHECKING == 1

SAVINGS == 2

\* A str is modelled as the sequence of its characters.
UpperCase == <<"A", "B", "C", "D", "E", "F", "G", "H", "I", "J", "K", "L", "M",
               "N", "O", "P", "Q", "R", "S", "T", "U", "V", "W", "X", "Y", "Z">>

LowerCase == <<"a", "b", "c", "d", "e", "f", "g", "h", "i", "j", "k", "l", "m",
               "n", "o", "p", "q", "r", "s", "t", "u", "v", "w", "x", "y", "z">>

\* str.lower()
lower(str) ==
    [i \in 1..Len(str) |->
        IF \E k \in 1..Len(UpperCase) : UpperCase[k] = str[i]
        THEN LowerCase[CHOOSE k \in 1..Len(UpperCase) : UpperCase[k] = str[i]]
        ELSE str[i]]

\* no AccountType: from_string raised ValueError
NoType == 0

\* a variant that compares the string as it is written
from_string_exact(type_str) ==
    IF type_str = <<"c", "h", "e", "c", "k", "i", "n", "g">> THEN CHECKING
    ELSE IF type_str = <<"s", "a", "v", "i", "n", "g", "s">> THEN SAVINGS
    ELSE NoType

\* AccountType.from_string: the enum member, or NoType where it raises ValueError
from_string(type_str) ==
    IF lower(type_str) = <<"c", "h", "e", "c", "k", "i", "n", "g">> THEN CHECKING
    ELSE IF lower(type_str) = <<"s", "a", "v", "i", "n", "g", "s">> THEN SAVINGS
    ELSE NoType

(***************************************************************************)
(* AccountClass.py                                                         *)
(*                                                                         *)
(* An account is [account_type, account_number, balance, transactions].    *)
(* The ORM mirror self._model is written by the account and read by no     *)
(* operation of the ledger; it is not part of the model.  An operation     *)
(* that can raise is an operator giving [acct, err]: the account as the    *)
(* call leaves it, and the exception that left it (or NoError).            *)
(***************************************************************************)

\* Decimal(0.08): the exact value of the double nearest to 0.08
Decimal_0_08 ==
    [sign |-> 0, exp |-> -56,
     coef |-> <<5, 7, 8, 6, 4, 0, 3, 2, 6, 3, 1, 2, 0, 5, 7, 4, 4, 5, 3, 6,
                0, 1, 8, 4, 3, 7, 7, 3, 9, 6, 3, 5, 4, 3, 3, 5, 6, 6, 1, 0,
                0, 0, 0, 0, 0, 0, 0, 0, 0, 0, 0, 0, 0, 0, 8>>]

\* Decimal(0.33): the exact value of the double nearest to 0.33
Decimal_0_33 ==
    [sign |-> 0, exp |-> -54,
     coef |-> <<5, 7, 3, 4, 8, 4, 1, 7, 2, 3, 5, 3, 3, 4, 8, 0, 3, 9, 5, 6,
                5, 1, 9, 1, 2, 5, 7, 4, 4, 3, 2, 2, 1, 3, 4, 5, 5, 1, 0, 0,
                0, 0, 0, 0, 0, 0, 0, 0, 0, 0, 0, 0, 3, 3>>]

\* Account.INTEREST_RATES
INTEREST_RATES(account_type) ==
    IF account_type = CHECKING THEN Decimal_0_08 ELSE Decimal_0_33

\* Account.__init__ (without a model to load from)
Account(account_type, account_number) ==
    [account_type |-> account_type, account_number |-> account_number,
     balance |-> DecOf(0, 0), transactions |-> <<>>]

RECURSIVE SumAmounts(_, _)
\* sum(Decimal(t.amount) for t in transactions[1..n]): a left fold from int 0,
\* every addition rounded to the context
SumAmounts(transactions, n) ==
    IF n = 0 THEN DecZero
    ELSE DecAdd(SumAmounts(transactions, n - 1), transactions[n].amount)

\* a variant that leaves the stored balance alone
update_balance_stale(self) == self

\* Account._update_balance
update_balance(self) ==
    [self EXCEPT !.balance = SumAmounts(self.transactions, Len(self.transactions))]

\* a variant that appends before it validates
Account_add_transaction_append_first(self, amount, dt, transaction_type) ==
    LET new_transaction == Transaction(self.account_number, dt, amount, transaction_type)
        err == validate_transaction(self.transactions, new_transaction)
        appended == [self EXCEPT !.transactions = Append(@, new_transaction)]
    IN  IF err # NoError THEN [acct |-> appended, err |-> err]
        ELSE [acct |-> update_balance(appended), err |-> NoError]

\* a variant that puts the new transaction at the front of the history
Account_add_transaction_front(self, amount, dt, transaction_type) ==
    LET new_transaction == Transaction(self.account_number, dt, amount, transaction_type)
        err == validate_transaction(self.transactions, new_transaction)
    IN  IF err # NoError THEN [acct |-> self, err |-> err]
        ELSE [acct |-> update_balance(
                          [self EXCEPT !.transactions = <<new_transaction>> \o @]),
              err |-> NoError]

\* Account.add_transaction
Account_add_transaction(self, amount, dt, transaction_type) ==
    LET new_transaction == Transaction(self.account_number, dt, amount, transaction_type)
        err == validate_transaction(self.transactions, new_transaction)
    IN  IF err # NoError THEN [acct |-> self, err |-> err]
        ELSE [acct |-> update_balance(
                          [self EXCEPT !.transactions = Append(@, new_transaction)]),
              err |-> NoError]

\* a variant that lists the transactions of a day newest first
list_transactions_unstable(self) ==
    LET n == Len(self.transactions)
        place(i) == Cardinality({j \in 1..n :
                        \/ self.transactions[j].date < self.transactions[i].date
                        \/ /\ self.transactions[j].date = self.transactions[i].date
                           /\ j >= i})
    IN  [k \in 1..n |-> self.transactions[CHOOSE i \in 1..n : place(i) = k]]

\* Account.list_transactions: sorted(key=date), a stable sort
list_transactions(self) ==
    LET n == Len(self.transactions)
        \* the place of transaction i in the sorted list
        place(i) == Cardinality({j \in 1..n :
                        \/ self.transactions[j].date < self.transactions[i].date
                        \/ /\ self.transactions[j].date = self.transactions[i].date
                           /\ j <= i})
    IN  [k \in 1..n |-> self.transactions[CHOOSE i \in 1..n : place(i) = k]]

MAX_DAILY_TRANSACTIONS == 2

MAX_MONTHLY_TRANSACTIONS == 5

\* a variant that counts the transactions of the day before as well
daily_count_two_days(self, dt) ==
    Cardinality({i \in 1..Len(self.transactions) :
                    self.transactions[i].date \in {dt, dt - 1}})

\* SavingsAccount._can_add_transaction
daily_count(self, dt) ==
    Cardinality({i \in 1..Len(self.transactions) : self.transactions[i].date = dt})

\* a variant that compares the month and not the year
monthly_count_any_year(self, dt) ==
    Cardinality({i \in 1..Len(self.transactions) :
                    Month(self.transactions[i].date) = Month(dt)})

monthly_count(self, dt) ==
    Cardinality({i \in 1..Len(self.transactions) :
                    /\ Month(self.transactions[i].date) = Month(dt)
                    /\ Year(self.transactions[i].date) = Year(dt)})

\* a variant that admits a transaction at the cap
can_add_transaction_inclusive(self, dt) ==
    /\ daily_count(self, dt) <= MAX_DAILY_TRANSACTIONS
    /\ monthly_count(self, dt) <= MAX_MONTHLY_TRANSACTIONS

\* SavingsAccount._can_add_transaction
can_add_transaction(self, dt) ==
    /\ daily_count(self, dt) < MAX_DAILY_TRANSACTIONS
    /\ monthly_count(self, dt) < MAX_MONTHLY_TRANSACTIONS

\* a variant whose limits also apply to the postings of a close
SavingsAccount_add_transaction_always_limited(self, amount, dt, transaction_type, bypass_limit) ==
    IF /\ ~bypass_limit
       /\ DecLess(DecAdd(self.balance, amount), DecZero)
       /\ transaction_type # DEPOSIT
    THEN [acct |-> self, err |-> OverdrawError]
    ELSE IF ~can_add_transaction(self, dt)
    THEN [acct |-> self,
          err |-> TransactionLimitError(
                      IF daily_count(self, dt) >= MAX_DAILY_TRANSACTIONS
                      THEN "daily" ELSE "monthly")]
    ELSE Account_add_transaction(self, amount, dt, transaction_type)

\* a variant whose overdraft check reads the balance without the amount
SavingsAccount_add_transaction_balance_only(self, amount, dt, transaction_type, bypass_limit) ==
    IF /\ ~bypass_limit
       /\ DecLess(self.balance, DecZero)
       /\ transaction_type # DEPOSIT
    THEN [acct |-> self, err |-> OverdrawError]
    ELSE IF ~bypass_limit /\ ~can_add_transaction(self, dt)
    THEN [acct |-> self,
          err |-> TransactionLimitError(
                      IF daily_count(self, dt) >= MAX_DAILY_TRANSACTIONS
                      THEN "daily" ELSE "monthly")]
    ELSE Account_add_transaction(self, amount, dt, transaction_type)

\* a variant without the overdraft check
SavingsAccount_add_transaction_no_overdraft(self, amount, dt, transaction_type, bypass_limit) ==
    IF ~bypass_limit /\ ~can_add_transaction(self, dt)
    THEN [acct |-> self,
          err |-> TransactionLimitError(
                      IF daily_count(self, dt) >= MAX_DAILY_TRANSACTIONS
                      THEN "daily" ELSE "monthly")]
    ELSE Account_add_transaction(self, amount, dt, transaction_type)

\* a variant that checks the limits before the overdraft
SavingsAccount_add_transaction_limits_first(self, amount, dt, transaction_type, bypass_limit) ==
    IF ~bypass_limit /\ ~can_add_transaction(self, dt)
    THEN [acct |-> self,
          err |-> TransactionLimitError(
                      IF daily_count(self, dt) >= MAX_DAILY_TRANSACTIONS
                      THEN "daily" ELSE "monthly")]
    ELSE IF /\ ~bypass_limit
            /\ DecLess(DecAdd(self.balance, amount), DecZero)
            /\ transaction_type # DEPOSIT
    THEN [acct |-> self, err |-> OverdrawError]
    ELSE Account_add_transaction(self, amount, dt, transaction_type)

\* SavingsAccount.add_transaction
SavingsAccount_add_transaction(self, amount, dt, transaction_type, bypass_limit) ==
    IF /\ ~bypass_limit
       /\ DecLess(DecAdd(self.balance, amount), DecZero)
       /\ transaction_type # DEPOSIT
    THEN [acct |-> self, err |-> OverdrawError]
    ELSE IF ~bypass_limit /\ ~can_add_transaction(self, dt)
    THEN [acct |-> self,
          err |-> TransactionLimitError(
                      IF daily_count(self, dt) >= MAX_DAILY_TRANSACTIONS
                      THEN "daily" ELSE "monthly")]
    ELSE Account_add_transaction(self, amount, dt, transaction_type)

\* CheckingAccount.MIN_BALANCE_FOR_FEE = Decimal(100)
MIN_BALANCE_FOR_FEE == DecOf(100, 0)

\* CheckingAccount.OVERDRAFT_FEE = Decimal(-5.75); the double -5.75 is exact
OVERDRAFT_FEE == DecOf(-575, -2)

\* a variant without the overdraft check
CheckingAccount_add_transaction_unchecked(self, amount, dt, transaction_type, bypass_limit) ==
    Account_add_transaction(self, amount, dt, transaction_type)

\* a variant whose overdraft check does not exempt deposits
CheckingAccount_add_transaction_any_type(self, amount, dt, transaction_type, bypass_limit) ==
    IF ~bypass_limit /\ DecLess(DecAdd(self.balance, amount), DecZero)
    THEN [acct |-> self, err |-> OverdrawError]
    ELSE Account_add_transaction(self, amount, dt, transaction_type)

\* CheckingAccount.add_transaction
CheckingAccount_add_transaction(self, amount, dt, transaction_type, bypass_limit) ==
    IF /\ ~bypass_limit
       /\ DecLess(DecAdd(self.balance, amount), DecZero)
       /\ transaction_type # DEPOSIT
    THEN [acct |-> self, err |-> OverdrawError]
    ELSE Account_add_transaction(self, amount, dt, transaction_type)

\* self.add_transaction(...): the method of the account's class
add_transaction(self, amount, dt, transaction_type, bypass_limit) ==
    IF self.account_type = SAVINGS
    THEN SavingsAccount_add_transaction(self, amount, dt, transaction_type, bypass_limit)
    ELSE CheckingAccount_add_transaction(self, amount, dt, transaction_type, bypass_limit)

\* a variant that charges the fee at the threshold as well
apply_account_fees_inclusive(self, fee_date) ==
    IF self.account_type = CHECKING /\ ~DecLess(MIN_BALANCE_FOR_FEE, self.balance)
    THEN add_transaction(self, OVERDRAFT_FEE, fee_date, FEE, TRUE)
    ELSE [acct |-> self, err |-> NoError]

\* a variant that posts the fee as a user transaction
apply_account_fees_user_path(self, fee_date) ==
    IF self.account_type = CHECKING /\ DecLess(self.balance, MIN_BALANCE_FOR_FEE)
    THEN add_transaction(self, OVERDRAFT_FEE, fee_date, FEE, FALSE)
    ELSE [acct |-> self, err |-> NoError]

\* CheckingAccount._apply_account_fees; Account._apply_account_fees (pass) for
\* a savings account
apply_account_fees(self, fee_date) ==
    IF self.account_type = CHECKING /\ DecLess(self.balance, MIN_BALANCE_FOR_FEE)
    THEN add_transaction(self, OVERDRAFT_FEE, fee_date, FEE, TRUE)
    ELSE [acct |-> self, err |-> NoError]

\* a variant that looks for a posting on fee_date itself
already_applied_same_day(self, fee_date) ==
    \E i \in 1..Len(self.transactions) :
        /\ self.transactions[i].date = fee_date
        /\ self.transactions[i].transaction_type \in {INTEREST, FEE}

\* a variant that never finds a posting
already_applied_never(self, fee_date) == FALSE

\* the duplicate-close test of Account.apply_interest_and_fees
already_applied(self, fee_date) ==
    \E i \in 1..Len(self.transactions) :
        /\ Month(self.transactions[i].date) = Month(fee_date)
        /\ self.transactions[i].transaction_type \in {INTEREST, FEE}

\* a variant that dates every close today
fee_date_of_today(self, today) == today

\* the fee_date of Account.apply_interest_and_fees; today is date.today()
fee_date_of(self, today) ==
    IF self.transactions # <<>>
    THEN last_day_of_month(get_last_transaction(self.transactions).date)
    ELSE today

\* a variant that posts the Interest as a user transaction
apply_interest_and_fees_user_path(self, today) ==
    LET interest_rate == INTEREST_RATES(self.account_type)
        fee_date == fee_date_of(self, today)
        interest == DecDivPow10(DecMul(self.balance, interest_rate), DecOf(100, 0))
        posted == add_transaction(self, interest, fee_date, INTEREST, FALSE)
        fees == apply_account_fees(posted.acct, fee_date)
    IN  IF fee_date = OutOfRange THEN [acct |-> self, err |-> ValueError]
        ELSE IF already_applied(self, fee_date)
        THEN [acct |-> self, err |-> TransactionSequenceError(fee_date, "interest")]
        ELSE IF posted.err # NoError THEN posted
        ELSE IF fees.err # NoError THEN fees
        ELSE [acct |-> update_balance(fees.acct), err |-> NoError]

\* Account.apply_interest_and_fees
apply_interest_and_fees(self, today) ==
    LET interest_rate == INTEREST_RATES(self.account_type)
        fee_date == fee_date_of(self, today)
        interest == DecDivPow10(DecMul(self.balance, interest_rate), DecOf(100, 0))
        posted == add_transaction(self, interest, fee_date, INTEREST, TRUE)
        fees == apply_account_fees(posted.acct, fee_date)
    IN  IF fee_date = OutOfRange THEN [acct |-> self, err |-> ValueError]
        ELSE IF already_applied(self, fee_date)
        THEN [acct |-> self, err |-> TransactionSequenceError(fee_date, "interest")]
        ELSE IF posted.err # NoError THEN posted
        ELSE IF fees.err # NoError THEN fees
        ELSE [acct |-> update_balance(fees.acct), err |-> NoError]

(***************************************************************************)
(* BankClass.py                                                            *)
(*                                                                         *)
(* accounts      Bank._accounts, the dict from account number to account   *)
(* selected      Bank._selected: the number of the selected account (the   *)
(*               dict never rebinds a key, so the number names the         *)
(*               object), or None                                          *)
(* num_accounts  Bank._num_accounts                                        *)
(* last          the last call made on the Bank: its name, its arguments,  *)
(*               the exception it raised (or NoError), what it printed,    *)
(*               and the Bank's state when it was called                   *)
(***************************************************************************)
VARIABLES accounts, selected, num_accounts, last

vars == <<accounts, selected, num_accounts, last>>

\* Bank._selected = None
None == 0

\* the Bank's state, kept in last.before
BankState == [accounts |-> accounts, selected |-> selected, num_accounts |-> num_accounts]

\* a call on the Bank, before it has run
Call(op) ==
    [op |-> op, account_type |-> <<>>, account_number |-> None, amount |-> DecZero,
     date |-> NoDate, today |-> NoDate, err |-> NoError, out |-> <<>>,
     before |-> BankState]

\* Bank.__init__ (without a session to load from)
Init ==
    /\ accounts = <<>>
    /\ selected = None
    /\ num_accounts = 0
    /\ last = [op |-> "__init__", account_type |-> <<>>, account_number |-> None,
               amount |-> DecZero, date |-> NoDate, today |-> NoDate,
               err |-> NoError, out |-> <<>>,
               before |-> [accounts |-> <<>>, selected |-> None, num_accounts |-> 0]]

\* self._accounts[key] = value
DictSet(dict, key, value) ==
    [k \in (DOMAIN dict) \cup {key} |-> IF k = key THEN value ELSE dict[k]]

\* a variant that takes the account number before it reads the type
open_account_count_first(account_type) ==
    LET acc_type_enum == from_string(account_type)
        call == [Call("open_account") EXCEPT !.account_type = account_type]
    IN  IF acc_type_enum = NoType
        THEN /\ num_accounts' = num_accounts + 1
             /\ last' = [call EXCEPT !.err = ValueError]
             /\ UNCHANGED <<accounts, selected>>
        ELSE /\ num_accounts' = num_accounts + 1
             /\ accounts' = DictSet(accounts, num_accounts',
                                    Account(acc_type_enum, num_accounts'))
             /\ last' = call
             /\ UNCHANGED selected

\* Bank.open_account
open_account(account_type) ==
    LET acc_type_enum == from_string(account_type)
        call == [Call("open_account") EXCEPT !.account_type = account_type]
    IN  IF acc_type_enum = NoType
        THEN /\ last' = [call EXCEPT !.err = ValueError]
             /\ UNCHANGED <<accounts, selected, num_accounts>>
        ELSE /\ num_accounts' = num_accounts + 1
             /\ accounts' = DictSet(accounts, num_accounts',
                                    Account(acc_type_enum, num_accounts'))
             /\ last' = call
             /\ UNCHANGED selected

\* a variant that selects a number without looking it up
select_account_unchecked(account_number) ==
    LET call == [Call("select_account") EXCEPT !.account_number = account_number]
    IN  /\ selected' = account_number
        /\ last' = call
        /\ UNCHANGED <<accounts, num_accounts>>

\* a variant that drops the selection before it raises
select_account_forgetful(account_number) ==
    LET call == [Call("select_account") EXCEPT !.account_number = account_number]
    IN  IF account_number = None
        THEN /\ selected' = None
             /\ last' = call
             /\ UNCHANGED <<accounts, num_accounts>>
        ELSE IF account_number \in DOMAIN accounts
        THEN /\ selected' = account_number
             /\ last' = call
             /\ UNCHANGED <<accounts, num_accounts>>
        ELSE /\ selected' = None
             /\ last' = [call EXCEPT !.err = AttributeError(InvalidAccountNumber)]
             /\ UNCHANGED <<accounts, num_accounts>>

\* Bank.select_account
select_account(account_number) ==
    LET call == [Call("select_account") EXCEPT !.account_number = account_number]
    IN  IF account_number = None
        THEN /\ selected' = None
             /\ last' = call
             /\ UNCHANGED <<accounts, num_accounts>>
        ELSE IF account_number \in DOMAIN accounts
        THEN /\ selected' = account_number
             /\ last' = call
             /\ UNCHANGED <<accounts, num_accounts>>
        ELSE /\ last' = [call EXCEPT !.err = AttributeError(InvalidAccountNumber)]
             /\ UNCHANGED <<accounts, selected, num_accounts>>

\* a variant that takes only a positive amount for a deposit
type_of_amount_positive(amount) ==
    IF DecLess(DecZero, amount) THEN DEPOSIT ELSE WITHDRAWAL

\* the transaction type Bank.add_transaction gives an amount
type_of_amount(amount) ==
    IF DecLess(amount, DecZero) THEN WITHDRAWAL ELSE DEPOSIT

\* a variant that adds to the account opened last
Bank_add_transaction_latest(amount, dt) ==
    LET call == [Call("add_transaction") EXCEPT !.amount = amount, !.date = dt]
    IN  IF selected = None
        THEN /\ last' = [call EXCEPT !.err = AttributeError(NoneHasNoAccountNumber)]
             /\ UNCHANGED <<accounts, selected, num_accounts>>
        ELSE LET r == add_transaction(accounts[num_accounts], amount, dt,
                                      type_of_amount(amount), FALSE)
             IN  /\ accounts' = [accounts EXCEPT ![num_accounts] = r.acct]
                 /\ last' = [call EXCEPT !.err = r.err]
                 /\ UNCHANGED <<selected, num_accounts>>

\* Bank.add_transaction; it has no test of the selection: the logger line
\* evaluates self._selected.account_number, and with nothing selected Python
\* raises AttributeError on None
Bank_add_transaction(amount, dt) ==
    LET call == [Call("add_transaction") EXCEPT !.amount = amount, !.date = dt]
    IN  IF selected = None
        THEN /\ last' = [call EXCEPT !.err = AttributeError(NoneHasNoAccountNumber)]
             /\ UNCHANGED <<accounts, selected, num_accounts>>
        ELSE LET r == add_transaction(accounts[selected], amount, dt,
                                      type_of_amount(amount), FALSE)
             IN  /\ accounts' = [accounts EXCEPT ![selected] = r.acct]
                 /\ last' = [call EXCEPT !.err = r.err]
                 /\ UNCHANGED <<selected, num_accounts>>

\* Bank.list_transactions; out is the list it prints line by line
Bank_list_transactions ==
    LET call == Call("list_transactions")
    IN  /\ IF selected = None
           THEN last' = [call EXCEPT !.err = AttributeError(RequiresSelection)]
           ELSE last' = [call EXCEPT !.out = list_transactions(accounts[selected])]
        /\ UNCHANGED <<accounts, selected, num_accounts>>

\* Bank.interest_and_fees; today is what date.today() returns during the call
interest_and_fees(today) ==
    LET call == [Call("interest_and_fees") EXCEPT !.today = today]
    IN  IF selected = None
        THEN /\ last' = [call EXCEPT !.err = AttributeError(RequiresSelection)]
             /\ UNCHANGED <<accounts, selected, num_accounts>>
        ELSE LET r == apply_interest_and_fees(accounts[selected], today)
             IN  /\ accounts' = [accounts EXCEPT ![selected] = r.acct]
                 /\ last' = [call EXCEPT !.err = r.err]
                 /\ UNCHANGED <<selected, num_accounts>>

(***************************************************************************)
(* The specification: any sequence of calls on one Bank, with arguments    *)
(* from small sets, while the Bank holds at most MaxAccounts accounts and  *)
(* MaxTxns transactions.                                                   *)
(***************************************************************************)

MaxAccounts == 1

MaxTxns == 3

\* the number of transactions the accounts hold together
RECURSIVE TotalTxns(_, _)
TotalTxns(accts, keys) ==
    IF keys = {} THEN 0
    ELSE LET k == CHOOSE k \in keys : TRUE
         IN  Len(accts[k].transactions) + TotalTxns(accts, keys \ {k})

Bounded(max_accounts, max_txns) ==
    /\ num_accounts <= max_accounts
    /\ TotalTxns(accounts, DOMAIN accounts) <= max_txns

Str_checking == <<"c", "h", "e", "c", "k", "i", "n", "g">>

Str_Savings == <<"S", "a", "v", "i", "n", "g", "s">>

Str_bond == <<"b", "o", "n", "d">>

TypeStrings == {Str_checking, Str_Savings, Str_bond}

Amounts == {DecOf(-1, 0), DecOf(1, 0)}

Dates == {date(2024, 1, 15), date(2024, 2, 10)}

Todays == {date(2024, 1, 20)}

Next ==
    \/ \E t \in TypeStrings : open_account(t) /\ Bounded(MaxAccounts, MaxTxns)'
    \/ \E n \in {None} \cup (1..(MaxAccounts + 1)) : select_account(n)
    \/ \E a \in Amounts, d \in Dates :
           Bank_add_transaction(a, d) /\ Bounded(MaxAccounts, MaxTxns)'
    \/ Bank_list_transactions
    \/ \E td \in Todays : interest_and_fees(td) /\ Bounded(MaxAccounts, MaxTxns)'

Spec == Init /\ [][Next]_vars

(***************************************************************************)
(* The savings specification: the Bank after open_account("Savings") and   *)
(* select_account(1), then any sequence of add_transaction and             *)
(* interest_and_fees calls on that account, with dates on one day of       *)
(* January 2023 and three of January 2024, while it holds at most          *)
(* MaxSavingsTxns transactions.                                            *)
(***************************************************************************)

MaxSavingsTxns == 6

SavingsAmounts == {DecOf(-1, 0), DecOf(1, 0)}

SavingsDates == {date(2023, 1, 5), date(2024, 1, 5), date(2024, 1, 6),
                 date(2024, 1, 7)}

InitSavings ==
    /\ accounts = DictSet(<<>>, 1, Account(SAVINGS, 1))
    /\ selected = 1
    /\ num_accounts = 1
    /\ last = [op |-> "select_account", account_type |-> <<>>, account_number |-> 1,
               amount |-> DecZero, date |-> NoDate, today |-> NoDate,
               err |-> NoError, out |-> <<>>,
               before |-> [accounts |-> DictSet(<<>>, 1, Account(SAVINGS, 1)),
                           selected |-> None, num_accounts |-> 1]]

SavingsBounded == TotalTxns(accounts, DOMAIN accounts) <= MaxSavingsTxns

NextSavings ==
    \/ \E a \in SavingsAmounts, d \in SavingsDates :
           Bank_add_transaction(a, d) /\ SavingsBounded'
    \/ \E td \in Todays : interest_and_fees(td) /\ SavingsBounded'

SpecSavings == InitSavings /\ [][NextSavings]_vars

(***************************************************************************)
(* The close specification: the Bank after one open_account, of a checking *)
(* or of a savings account, and select_account(1), then any sequence of    *)
(* deposits and interest_and_fees calls on that account, while it holds at *)
(* most MaxCloseTxns transactions.  The deposit is the amount that the     *)
(* checking interest takes to a balance of exactly 100.                    *)
(***************************************************************************)

MaxCloseTxns == 6

\* Decimal("99.92006394884092725653077205"): with the checking interest
\* 0.07993605115907274346922795191 the sum rounds to exactly 100
DepositToHundred ==
    [sign |-> 0, exp |-> -26,
     coef |-> <<5, 0, 2, 7, 7, 0, 3, 5, 6, 5, 2, 7, 2, 9, 0, 4, 8, 8, 4, 9,
                3, 6, 0, 0, 2, 9, 9, 9>>]

CloseAmounts == {DepositToHundred}

CloseDates == {date(2024, 1, 5), date(2024, 1, 6), date(2024, 1, 31),
               date(2024, 2, 10)}

InitClose ==
    \E t \in {CHECKING, SAVINGS} :
        /\ accounts = DictSet(<<>>, 1, Account(t, 1))
        /\ selected = 1
        /\ num_accounts = 1
        /\ last = [op |-> "select_account", account_type |-> <<>>,
                   account_number |-> 1, amount |-> DecZero, date |-> NoDate,
                   today |-> NoDate, err |-> NoError, out |-> <<>>,
                   before |-> [accounts |-> DictSet(<<>>, 1, Account(t, 1)),
                               selected |-> None, num_accounts |-> 1]]

CloseBounded == TotalTxns(accounts, DOMAIN accounts) <= MaxCloseTxns

NextClose ==
    \/ \E a \in CloseAmounts, d \in CloseDates :
           Bank_add_transaction(a, d) /\ CloseBounded'
    \/ \E td \in Todays : interest_and_fees(td) /\ CloseBounded'

SpecClose == InitClose /\ [][NextClose]_vars

(***************************************************************************)
(* The calendar specification: Transaction.last_day_of_month called on any *)
(* date of the years CalendarYears; last.date is the argument, last.out    *)
(* the date returned.                                                      *)
(***************************************************************************)

CalendarYears == {1999, 2000, 2023, 2024, 2100, 9999}

CalendarDates ==
    UNION {{date(y, m, d) : d \in 1..DaysInMonth(y, m)} :
               y \in CalendarYears, m \in 1..12}

\* a call of Transaction.last_day_of_month
Call_last_day_of_month(transaction_date) ==
    LET r == last_day_of_month(transaction_date)
        call == [Call("last_day_of_month") EXCEPT !.date = transaction_date]
    IN  /\ last' = IF r = OutOfRange THEN [call EXCEPT !.err = ValueError]
                   ELSE [call EXCEPT !.out = <<r>>]
        /\ UNCHANGED <<accounts, selected, num_accounts>>

NextDates == \E dt \in CalendarDates : Call_last_day_of_month(dt)

SpecDates == Init /\ [][NextDates]_vars

(***************************************************************************)
(* The bank specification: an empty Bank, then any sequence of             *)
(* open_account, select_account and add_transaction calls, while the Bank  *)
(* holds at most MaxBankAccounts accounts and MaxBankTxns transactions.    *)
(***************************************************************************)

MaxBankAccounts == 3

MaxBankTxns == 2

BankAmounts == {DecOf(1, 0)}

BankDates == {date(2024, 1, 15)}

NextBank ==
    \/ \E t \in TypeStrings :
           open_account(t) /\ Bounded(MaxBankAccounts, MaxBankTxns)'
    \/ \E n \in {None} \cup (1..(MaxBankAccounts + 1)) : select_account(n)
    \/ \E a \in BankAmounts, d \in BankDates :
           Bank_add_transaction(a, d) /\ Bounded(MaxBankAccounts, MaxBankTxns)'

SpecBank == Init /\ [][NextBank]_vars

(***************************************************************************)
(* The opening specification: an empty Bank, then any sequence of          *)
(* open_account calls with the strings OpenStrings, while the Bank holds   *)
(* at most MaxOpenAccounts accounts.                                       *)
(***************************************************************************)

MaxOpenAccounts == 3

Str_CHECKING == <<"C", "H", "E", "C", "K", "I", "N", "G">>

Str_ChEcKiNg == <<"C", "h", "E", "c", "K", "i", "N", "g">>

Str_savings == <<"s", "a", "v", "i", "n", "g", "s">>

Str_sAVINGs == <<"s", "A", "V", "I", "N", "G", "s">>

Str_saving == <<"s", "a", "v", "i", "n", "g">>

Str_checkings == <<"c", "h", "e", "c", "k", "i", "n", "g", "s">>

Str_padded == <<" ", "s", "a", "v", "i", "n", "g", "s">>

Str_empty == <<>>

OpenStrings ==
    TypeStrings \cup {Str_CHECKING, Str_ChEcKiNg, Str_savings, Str_sAVINGs,
                      Str_saving, Str_checkings, Str_padded, Str_empty}

NextOpen ==
    \E t \in OpenStrings : open_account(t) /\ (num_accounts <= MaxOpenAccounts)'

SpecOpen == Init /\ [][NextOpen]_vars

(***************************************************************************)
(* The amounts specification: the Bank after one open_account, of a        *)
(* checking or of a savings account, and select_account(1), then any       *)
(* sequence of add_transaction calls with a negative, a zero and two       *)
(* positive amounts, and of interest_and_fees calls, while the account     *)
(* holds at most MaxKindTxns transactions.                                 *)
(***************************************************************************)

MaxKindTxns == 4

KindAmounts == {DecOf(-1, 0), DecOf(0, 0), DecOf(1, 0)}

KindDates == {date(2024, 1, 15), date(2024, 2, 10)}

KindBounded == TotalTxns(accounts, DOMAIN accounts) <= MaxKindTxns

NextKinds ==
    \/ \E a \in KindAmounts, d \in KindDates :
           Bank_add_transaction(a, d) /\ KindBounded'
    \/ \E td \in Todays : interest_and_fees(td) /\ KindBounded'

SpecKinds == InitClose /\ [][NextKinds]_vars

(***************************************************************************)
(* The watermark specification: the Bank after one open_account, of a      *)
(* checking or of a savings account, and select_account(1), then any       *)
(* sequence of add_transaction and interest_and_fees calls, with dates     *)
(* before and after today in its month, on the last day of that month and  *)
(* in the next month, while the account holds at most MaxWatermarkTxns     *)
(* transactions.                                                           *)
(***************************************************************************)

MaxWatermarkTxns == 4

WatermarkAmounts == {DecOf(-1, 0), DecOf(1, 0)}

WatermarkDates == {date(2024, 1, 15), date(2024, 1, 25), date(2024, 1, 31),
                   date(2024, 2, 10)}

WatermarkBounded == TotalTxns(accounts, DOMAIN accounts) <= MaxWatermarkTxns

NextWatermark ==
    \/ \E a \in WatermarkAmounts, d \in WatermarkDates :
           Bank_add_transaction(a, d) /\ WatermarkBounded'
    \/ \E td \in Todays : interest_and_fees(td) /\ WatermarkBounded'

SpecWatermark == InitClose /\ [][NextWatermark]_vars

(***************************************************************************)
(* The caps specification: the Bank after open_account("Savings") and      *)
(* select_account(1), then any sequence of deposits and interest_and_fees  *)
(* calls, with dates on the last three days of January 2024 and the last   *)
(* day of February, while the account holds at most MaxCapTxns             *)
(* transactions.                                                           *)
(***************************************************************************)

MaxCapTxns == 8

CapAmounts == {DecOf(1, 0)}

CapDates == {date(2024, 1, 29), date(2024, 1, 30), date(2024, 1, 31),
             date(2024, 2, 29)}

CapBounded == TotalTxns(accounts, DOMAIN accounts) <= MaxCapTxns

NextCaps ==
    \/ \E a \in CapAmounts, d \in CapDates :
           Bank_add_transaction(a, d) /\ CapBounded'
    \/ \E td \in Todays : interest_and_fees(td) /\ CapBounded'

SpecCaps == InitSavings /\ [][NextCaps]_vars

(***************************************************************************)
(* The frame specification: an empty Bank, then any sequence of            *)
(* open_account, select_account, add_transaction and interest_and_fees     *)
(* calls, while the Bank holds at most MaxFrameAccounts accounts and       *)
(* MaxFrameTxns transactions.                                              *)
(***************************************************************************)

MaxFrameAccounts == 2

MaxFrameTxns == 3

FrameAmounts == {DecOf(-1, 0), DecOf(1, 0)}

FrameDates == {date(2024, 1, 15)}

NextFrame ==
    \/ \E t \in TypeStrings :
           open_account(t) /\ Bounded(MaxFrameAccounts, MaxFrameTxns)'
    \/ \E n \in {None} \cup (1..(MaxFrameAccounts + 1)) : select_account(n)
    \/ \E a \in FrameAmounts, d \in FrameDates :
           Bank_add_transaction(a, d) /\ Bounded(MaxFrameAccounts, MaxFrameTxns)'
    \/ \E td \in Todays :
           interest_and_fees(td) /\ Bounded(MaxFrameAccounts, MaxFrameTxns)'

SpecFrame == Init /\ [][NextFrame]_vars

(***************************************************************************)
(* Properties.  They are stated on the last call: last.before is the Bank  *)
(* when the call was made, the variables are the Bank as the call left it. *)
(***************************************************************************)

\* the account the last call was made on, when it was made and as it is now
\* (both only where an account was selected)
PreAcct == last.before.accounts[last.before.selected]

PostAcct == accounts[last.before.selected]

\* the last call was Bank.add_transaction on a selected account
UserAdd == last.op = "add_transaction" /\ last.before.selected # None

\* the last call was Bank.interest_and_fees on a selected account
UserClose == last.op = "interest_and_fees" /\ last.before.selected # None

IsNegative(x) == DecLess(x, DecZero)

IsPositive(x) == DecLess(DecZero, x)

\* the latest date of a non-empty history
LatestDate(transactions) ==
    CHOOSE d \in {transactions[i].date : i \in 1..Len(transactions)} :
        \A i \in 1..Len(transactions) : transactions[i].date <= d

\* the exact sign of balance + amount
WouldOverdraw(acct, amount) == IsNegative(ExactAdd(acct.balance, amount))

\* the number of transactions of a history on a day, and in a calendar month
OnDay(transactions, dt) ==
    Cardinality({i \in 1..Len(transactions) : transactions[i].date = dt})

InMonth(transactions, dt) ==
    Cardinality({i \in 1..Len(transactions) :
                    /\ Year(transactions[i].date) = Year(dt)
                    /\ Month(transactions[i].date) = Month(dt)})

C2_ErrorChangesNothing ==
    last.err # NoError => BankState = last.before

\* C2 witness: a call raised on a Bank that holds an account with a history.
C2_Witness ==
    /\ last.err.type = "TransactionSequenceError"
    /\ last.before.selected # None
    /\ PreAcct.transactions # <<>>

\* C3: a user add_transaction with a negative amount and balance + amount < 0
\* raises OverdrawError and leaves the account as it was; one with
\* balance + amount = 0 is not rejected for overdraft.
C3_Overdraft ==
    UserAdd /\ IsNegative(last.amount) =>
        /\ WouldOverdraw(PreAcct, last.amount) =>
               last.err = OverdrawError /\ PostAcct = PreAcct
        /\ ExactAdd(PreAcct.balance, last.amount) = DecZero =>
               last.err # OverdrawError

\* C3 witness: a withdrawal was rejected for overdraft on a savings account
\* whose balance is positive.
C3_Witness ==
    /\ UserAdd
    /\ PreAcct.account_type = SAVINGS
    /\ IsPositive(PreAcct.balance)
    /\ last.err = OverdrawError

\* C3, second case reached: a withdrawal down to exactly zero was accepted.
C3_WitnessToZero ==
    /\ UserAdd
    /\ IsNegative(last.amount)
    /\ last.err = NoError
    /\ PostAcct.balance = DecZero

\* C4 as claimed: every accepted user transaction, Deposit or Withdrawal, has
\* balance_before + amount >= 0.
C4_Claimed ==
    UserAdd /\ last.err = NoError => ~WouldOverdraw(PreAcct, last.amount)

\* C4 as amended: every accepted user Withdrawal has balance_before + amount
\* >= 0, and a Withdrawal whose result would be negative is rejected, also
\* when the balance is already negative after a Fee.  A Deposit is exempt.
C4_AcceptedWithdrawalCovered ==
    UserAdd /\ IsNegative(last.amount) =>
        (last.err = NoError => ~WouldOverdraw(PreAcct, last.amount))
        /\ (WouldOverdraw(PreAcct, last.amount) => last.err # NoError)

\* C4 witness: a withdrawal was refused on a balance a Fee had made negative.
C4_Witness ==
    /\ UserAdd
    /\ IsNegative(last.amount)
    /\ IsNegative(PreAcct.balance)
    /\ \E i \in 1..Len(PreAcct.transactions) :
           PreAcct.transactions[i].transaction_type = FEE
    /\ last.err = OverdrawError

\* C5: a Deposit (a positive amount) posted through Bank.add_transaction is
\* never rejected with OverdrawError, whatever the kind of the account and
\* its balance.
C5_DepositNeverOverdraws ==
    UserAdd /\ IsPositive(last.amount) => last.err # OverdrawError

\* C5 witness: a deposit that leaves the balance negative was accepted.
C5_Witness ==
    /\ UserAdd
    /\ IsPositive(last.amount)
    /\ WouldOverdraw(PreAcct, last.amount)
    /\ last.err = NoError
    /\ Len(PostAcct.transactions) = Len(PreAcct.transactions) + 1

\* C5, the rejections a Deposit can still meet: the savings limits ...
C5_WitnessLimit ==
    UserAdd /\ IsPositive(last.amount) /\ last.err.type = "TransactionLimitError"

\* ... and the sequencing rule.
C5_WitnessSequence ==
    UserAdd /\ IsPositive(last.amount) /\ last.err.type = "TransactionSequenceError"

\* the call was a user add_transaction dated before the latest date of a
\* non-empty history
Backdated ==
    /\ UserAdd
    /\ PreAcct.transactions # <<>>
    /\ last.date < LatestDate(PreAcct.transactions)

\* the savings limits refuse a transaction on the day and month of the call
OverLimit ==
    /\ PreAcct.account_type = SAVINGS
    /\ \/ OnDay(PreAcct.transactions, last.date) >= 2
       \/ InMonth(PreAcct.transactions, last.date) >= 5

\* the call was a withdrawal that would overdraw
Overdrawing == IsNegative(last.amount) /\ WouldOverdraw(PreAcct, last.amount)

\* C6 as claimed: a backdated add_transaction is rejected with a SequenceError
\* that carries the latest date, and nothing is appended; on an empty history
\* no date is rejected for sequencing.
C6_Claimed ==
    /\ Backdated =>
           /\ last.err = TransactionSequenceError(LatestDate(PreAcct.transactions),
                                                  "sequence")
           /\ PostAcct = PreAcct
    /\ UserAdd /\ PreAcct.transactions = <<>> =>
           last.err.type # "TransactionSequenceError"

\* C6 as amended: a backdated add_transaction is always rejected and nothing
\* is appended; the error is the SequenceError that carries the latest date
\* unless the overdraft check or a savings limit has rejected it first; on an
\* empty history no date is rejected for sequencing.
C6_BackdatedRejected ==
    /\ Backdated =>
           /\ last.err # NoError
           /\ PostAcct = PreAcct
           /\ ~Overdrawing /\ ~OverLimit =>
                  last.err = TransactionSequenceError(
                                 LatestDate(PreAcct.transactions), "sequence")
           /\ last.err.type = "TransactionSequenceError" =>
                  last.err.latest_date = LatestDate(PreAcct.transactions)
    /\ UserAdd /\ PreAcct.transactions = <<>> =>
           last.err.type # "TransactionSequenceError"

\* C6 witness: a backdated deposit was rejected with the SequenceError.
C6_Witness ==
    /\ Backdated
    /\ IsPositive(last.amount)
    /\ last.err.type = "TransactionSequenceError"
    /\ last.err.latest_date > last.date

\* C7: on a checking account a deposit dated on or after the latest date of
\* the history (or on any date, if the history is empty) is accepted and
\* appended.
C7_CheckingDepositAccepted ==
    /\ UserAdd
    /\ PreAcct.account_type = CHECKING
    /\ IsPositive(last.amount)
    /\ \/ PreAcct.transactions = <<>>
       \/ last.date >= LatestDate(PreAcct.transactions)
    => /\ last.err = NoError
       /\ PostAcct.transactions =
              Append(PreAcct.transactions,
                     Transaction(PreAcct.account_number, last.date, last.amount, DEPOSIT))

\* C7 witness: a checking deposit on the very date of the latest transaction
\* was accepted.
C7_Witness ==
    /\ UserAdd
    /\ PreAcct.account_type = CHECKING
    /\ IsPositive(last.amount)
    /\ PreAcct.transactions # <<>>
    /\ last.date = LatestDate(PreAcct.transactions)
    /\ last.err = NoError

\* the call was a user add_transaction on a savings account
SavingsAdd == UserAdd /\ PreAcct.account_type = SAVINGS

\* the number of transactions of a history in a month of any year
InMonthNumber(transactions, dt) ==
    Cardinality({i \in 1..Len(transactions) :
                    Month(transactions[i].date) = Month(dt)})

\* C8 as claimed: on a savings account a user add_transaction dated d is
\* rejected with TransactionLimitError "daily" whenever the history holds 2 or
\* more transactions on d, also when the monthly cap is reached; with fewer
\* than 2 on d and fewer than 5 in d's month there is no limit error.
C8_Claimed ==
    SavingsAdd =>
        /\ OnDay(PreAcct.transactions, last.date) >= 2 =>
               last.err = TransactionLimitError("daily")
        /\ /\ OnDay(PreAcct.transactions, last.date) < 2
           /\ InMonth(PreAcct.transactions, last.date) < 5
           => last.err.type # "TransactionLimitError"

\* C8 as amended: the same, for a transaction that is not a withdrawal that
\* would overdraw; such a withdrawal raises OverdrawError, whatever the
\* history holds on d.
C8_DailyCap ==
    SavingsAdd =>
        /\ OnDay(PreAcct.transactions, last.date) >= 2 /\ ~Overdrawing =>
               last.err = TransactionLimitError("daily") /\ PostAcct = PreAcct
        /\ OnDay(PreAcct.transactions, last.date) >= 2 /\ Overdrawing =>
               last.err = OverdrawError
        /\ /\ OnDay(PreAcct.transactions, last.date) < 2
           /\ InMonth(PreAcct.transactions, last.date) < 5
           => last.err.type # "TransactionLimitError"

\* C8 witness: a transaction was rejected "daily" when both caps were reached.
C8_Witness ==
    /\ SavingsAdd
    /\ OnDay(PreAcct.transactions, last.date) >= 2
    /\ InMonth(PreAcct.transactions, last.date) >= 5
    /\ last.err = TransactionLimitError("daily")

\* C8, the accepting case reached: the second transaction of a day.
C8_WitnessAccepted ==
    /\ SavingsAdd
    /\ OnDay(PreAcct.transactions, last.date) = 1
    /\ last.err = NoError

\* C9 as claimed: on a savings account a user add_transaction dated d is
\* rejected with TransactionLimitError "monthly" when the history holds 5 or
\* more transactions in d's year and month and fewer than 2 on d; the
\* transactions of the same month of another year do not count.
C9_Claimed ==
    SavingsAdd /\ OnDay(PreAcct.transactions, last.date) < 2 =>
        /\ InMonth(PreAcct.transactions, last.date) >= 5 =>
               last.err = TransactionLimitError("monthly")
        /\ InMonth(PreAcct.transactions, last.date) < 5 =>
               last.err.type # "TransactionLimitError"

\* C9 as amended: the same, for a transaction that is not a withdrawal that
\* would overdraw; such a withdrawal raises OverdrawError.
C9_MonthlyCap ==
    SavingsAdd /\ OnDay(PreAcct.transactions, last.date) < 2 =>
        /\ InMonth(PreAcct.transactions, last.date) >= 5 /\ ~Overdrawing =>
               last.err = TransactionLimitError("monthly") /\ PostAcct = PreAcct
        /\ InMonth(PreAcct.transactions, last.date) >= 5 /\ Overdrawing =>
               last.err = OverdrawError
        /\ InMonth(PreAcct.transactions, last.date) < 5 =>
               last.err.type # "TransactionLimitError"

\* C9 witness: a transaction was rejected "monthly" on a day with fewer than 2.
C9_Witness ==
    /\ SavingsAdd
    /\ OnDay(PreAcct.transactions, last.date) < 2
    /\ InMonth(PreAcct.transactions, last.date) >= 5
    /\ last.err = TransactionLimitError("monthly")

\* C9, the other year reached: a transaction was accepted when the history
\* held 5 transactions in January, one of them of another year.
C9_WitnessOtherYear ==
    /\ SavingsAdd
    /\ InMonthNumber(PreAcct.transactions, last.date) >= 5
    /\ InMonth(PreAcct.transactions, last.date) < 5
    /\ last.err = NoError

\* C10 as claimed: on a savings account a user withdrawal that exceeds a cap
\* and would overdraw is rejected with TransactionLimitError.
C10_Claimed ==
    SavingsAdd /\ OverLimit /\ Overdrawing =>
        last.err.type = "TransactionLimitError"

\* C10 as amended: the overdraft check runs first, the limit checks second,
\* sequencing last: a user withdrawal that exceeds a cap and would overdraw is
\* rejected with OverdrawError; a transaction that exceeds a cap, is backdated
\* and does not overdraw is rejected with TransactionLimitError.
C10_CheckOrder ==
    SavingsAdd /\ OverLimit =>
        /\ Overdrawing => last.err = OverdrawError
        /\ ~Overdrawing /\ Backdated => last.err.type = "TransactionLimitError"

\* C10 witness: a withdrawal over a cap and over the balance was rejected.
C10_Witness ==
    /\ SavingsAdd
    /\ OverLimit
    /\ Overdrawing
    /\ last.err # NoError

\* C10, the second case reached: a backdated transaction over a cap.
C10_WitnessBackdated ==
    /\ SavingsAdd
    /\ OverLimit
    /\ ~Overdrawing
    /\ Backdated
    /\ last.err.type = "TransactionLimitError"

(***************************************************************************)
(* The monthly close                                                       *)
(***************************************************************************)

\* the calendar: the number of days of month m of year y
LeapYear(y) == y % 4 = 0 /\ (y % 100 # 0 \/ y % 400 = 0)

CalendarLastDay(y, m) ==
    IF m \in {1, 3, 5, 7, 8, 10, 12} THEN 31
    ELSE IF m \in {4, 6, 9, 11} THEN 30
    ELSE IF LeapYear(y) THEN 29
    ELSE 28

\* the last day of the calendar month of a date
EndOfMonth(dt) == date(Year(dt), Month(dt), CalendarLastDay(Year(dt), Month(dt)))

\* the fee_date a close of the account must use
ExpectedFeeDate ==
    IF PreAcct.transactions = <<>> THEN last.today
    ELSE EndOfMonth(LatestDate(PreAcct.transactions))

\* the transactions the last call appended to the account
Posted ==
    SubSeq(PostAcct.transactions, Len(PreAcct.transactions) + 1,
           Len(PostAcct.transactions))

\* the call was rejected as a duplicate monthly close
DuplicateClose ==
    last.err.type = "TransactionSequenceError" /\ last.err.detail = "interest"

\* a history holds an Interest or a Fee
HasPosting(transactions) ==
    \E i \in 1..Len(transactions) :
        transactions[i].transaction_type \in {INTEREST, FEE}

\* a history whose last entry is an Interest or a Fee: a close has succeeded
\* and no transaction was added since
ClosedLast(transactions) ==
    /\ transactions # <<>>
    /\ transactions[Len(transactions)].transaction_type \in {INTEREST, FEE}

\* C11: a close of an account that has never been closed succeeds, and a
\* further close with no transaction added in between fails with the
\* duplicate-close SequenceError and leaves history and balance as the first
\* close left them.
C11_SecondCloseRejected ==
    UserClose =>
        /\ ~HasPosting(PreAcct.transactions) => last.err = NoError
        /\ ClosedLast(PreAcct.transactions) =>
               /\ last.err = TransactionSequenceError(ExpectedFeeDate, "interest")
               /\ PostAcct = PreAcct

\* C11 witness: a second close of an account with a deposit and the Interest
\* of the first close was rejected.
C11_Witness ==
    /\ UserClose
    /\ ClosedLast(PreAcct.transactions)
    /\ PreAcct.balance # DecZero
    /\ DuplicateClose
    /\ PostAcct = PreAcct

\* C11, the first close reached.
C11_WitnessFirst ==
    UserClose /\ ~HasPosting(PreAcct.transactions) /\ last.err = NoError

\* a history holds an Interest or a Fee in the calendar month of a date
PostingInMonth(transactions, dt) ==
    \E i \in 1..Len(transactions) :
        /\ transactions[i].transaction_type \in {INTEREST, FEE}
        /\ Year(transactions[i].date) = Year(dt)
        /\ Month(transactions[i].date) = Month(dt)

\* C12: a close is rejected as a duplicate exactly when the history holds an
\* Interest or a Fee in the calendar month (same year, same month) of
\* fee_date; a posting in the same month of another year does not block it.
C12_Claimed ==
    UserClose =>
        (DuplicateClose <=> PostingInMonth(PreAcct.transactions, ExpectedFeeDate))

\* C12, the half that does hold: a posting in the calendar month of fee_date
\* blocks the close, and a close is only ever rejected as a duplicate.
C12_SameMonthBlocks ==
    UserClose =>
        /\ PostingInMonth(PreAcct.transactions, ExpectedFeeDate) => DuplicateClose
        /\ last.err # NoError => DuplicateClose

\* C12, the failing case: a close was rejected for a posting of another year.
C12_BlockedByOtherYear ==
    /\ UserClose
    /\ DuplicateClose
    /\ ~PostingInMonth(PreAcct.transactions, ExpectedFeeDate)

\* two entries of a history are of one kind and one calendar month
TwoInMonth(transactions, kind) ==
    \E i, j \in 1..Len(transactions) :
        /\ i < j
        /\ transactions[i].transaction_type = kind
        /\ transactions[j].transaction_type = kind
        /\ Year(transactions[i].date) = Year(transactions[j].date)
        /\ Month(transactions[i].date) = Month(transactions[j].date)

\* C13: in every reachable state no account's history holds two Interest
\* transactions dated in one calendar month, and no checking account's
\* history holds two Fee transactions dated in one calendar month.
C13_OncePerMonth ==
    \A n \in DOMAIN accounts :
        /\ ~TwoInMonth(accounts[n].transactions, INTEREST)
        /\ accounts[n].account_type = CHECKING =>
               ~TwoInMonth(accounts[n].transactions, FEE)

\* C13 witness: a checking account was closed in two months, with a Fee each
\* time, and a third close was rejected.
C13_Witness ==
    /\ UserClose
    /\ DuplicateClose
    /\ PostAcct.account_type = CHECKING
    /\ \E i, j \in 1..Len(PostAcct.transactions) :
           /\ i < j
           /\ PostAcct.transactions[i].transaction_type = FEE
           /\ PostAcct.transactions[j].transaction_type = FEE

\* C14: every Interest and Fee a close posts is dated fee_date: the last day
\* of the month of the account's most recent transaction when the history is
\* not empty, today's date when it is empty.
C14_PostedOnFeeDate ==
    UserClose /\ last.err = NoError =>
        /\ SubSeq(PostAcct.transactions, 1, Len(PreAcct.transactions)) =
               PreAcct.transactions
        /\ Posted # <<>>
        /\ \A i \in 1..Len(Posted) :
               /\ Posted[i].transaction_type \in {INTEREST, FEE}
               /\ Posted[i].date = ExpectedFeeDate

\* C14 witness: a close of a history whose latest date is not a month end
\* posted an Interest and a Fee.
C14_Witness ==
    /\ UserClose
    /\ last.err = NoError
    /\ PreAcct.transactions # <<>>
    /\ LatestDate(PreAcct.transactions) < ExpectedFeeDate
    /\ ExpectedFeeDate # last.today
    /\ Len(Posted) = 2

\* C14, the empty history reached: the postings are dated today.
C14_WitnessEmpty ==
    /\ UserClose
    /\ last.err = NoError
    /\ PreAcct.transactions = <<>>
    /\ Posted # <<>>
    /\ \A i \in 1..Len(Posted) : Posted[i].date = last.today

\* C15: for every calendar date d, last_day_of_month(d) is the final day of
\* d's own year and month (28, 29, 30 or 31 as the calendar requires), and for
\* a December date it is 31 December of the same year.
C15_Claimed ==
    last.op = "last_day_of_month" =>
        last.err = NoError /\ last.out = <<EndOfMonth(last.date)>>

\* C15, what holds: the same for every date before December of MAXYEAR.
C15_BeforeLastDecember ==
    last.op = "last_day_of_month" /\ last.date < date(MAXYEAR, 12, 1) =>
        last.err = NoError /\ last.out = <<EndOfMonth(last.date)>>

\* C15, the failing case: the call raised.
C15_Raised == last.op = "last_day_of_month" /\ last.err = ValueError

\* C15, cases reached: 29 February of a leap year, and 31 December of the
\* year of a December date.
C15_WitnessLeap ==
    last.op = "last_day_of_month" /\ last.out = <<date(2024, 2, 29)>>

C15_WitnessDecember ==
    /\ last.op = "last_day_of_month"
    /\ last.date = date(2023, 12, 5)
    /\ last.out = <<date(2023, 12, 31)>>

\* the call was a successful close of a checking account
CheckingClosed ==
    UserClose /\ PreAcct.account_type = CHECKING /\ last.err = NoError

\* the balance right after the Interest posting of the close: the sum of the
\* history and the Interest
BalanceAfterInterest ==
    SumAmounts(PostAcct.transactions, Len(PreAcct.transactions) + 1)

\* the Fee a close of the account posts
TheFee ==
    Transaction(PreAcct.account_number, ExpectedFeeDate, DecOf(-575, -2), FEE)

\* C16: a close of a checking account posts a Fee of exactly -5.75 if and
\* only if the balance after the Interest posting is strictly less than 100;
\* a balance of exactly 100 or more after the Interest gets no Fee.
C16_FeeIffBelowHundred ==
    CheckingClosed =>
        /\ Posted # <<>>
        /\ Posted[1].transaction_type = INTEREST
        /\ IF DecLess(BalanceAfterInterest, DecOf(100, 0))
           THEN Posted = <<Posted[1], TheFee>>
           ELSE Posted = <<Posted[1]>>

\* C16 witness: the balance was below 100 before the Interest and exactly 100
\* after it, and no Fee was posted.
C16_Witness ==
    /\ CheckingClosed
    /\ DecLess(PreAcct.balance, DecOf(100, 0))
    /\ BalanceAfterInterest = DecOf(100, 0)
    /\ Len(Posted) = 1

\* C16, the Fee reached: it follows an Interest that is not zero.
C16_WitnessFee ==
    /\ CheckingClosed
    /\ Len(Posted) = 2
    /\ Posted[1].amount # DecZero
    /\ Posted[2].amount = DecOf(-575, -2)

\* exact decimal arithmetic, with no rounding
ExactProduct(a, b) ==
    Canon((a.sign + b.sign) % 2, MulDigits(a.coef, b.coef), a.exp + b.exp)

ExactSum(a, b) ==
    LET x == ExactAdd(a, b)
    IN  Canon(x.sign, x.coef, x.exp)

\* the monthly rate of the claim: 0.08 for checking, 0.33 for savings
ClaimedRate(account_type) ==
    IF account_type = CHECKING THEN DecOf(8, -2) ELSE DecOf(33, -2)

\* principal * rate / 100, exactly
ClaimedInterest(acct) ==
    ExactProduct(ExactProduct(acct.balance, ClaimedRate(acct.account_type)),
                 DecOf(1, -2))

\* C17: the Interest a successful close posts is exactly balance * rate / 100,
\* with rate 0.08 for checking and 0.33 for savings, and when no Fee is due
\* the balance after the close is principal + principal * rate / 100, with no
\* rounding of the stored value.
C17_Claimed ==
    UserClose /\ last.err = NoError =>
        /\ Posted # <<>>
        /\ Posted[1].amount = ClaimedInterest(PreAcct)
        /\ Len(Posted) = 1 =>
               PostAcct.balance = ExactSum(PreAcct.balance, ClaimedInterest(PreAcct))

\* C17, the failing case: the Interest posted on a principal of 1 is not the
\* claimed one.
C17_InterestOff ==
    /\ UserClose
    /\ last.err = NoError
    /\ PreAcct.balance = DecOf(1, 0)
    /\ Posted[1].amount # ClaimedInterest(PreAcct)

\* C17, what holds: on a principal of zero the Interest is zero.
C17_ZeroPrincipal ==
    UserClose /\ last.err = NoError /\ PreAcct.balance = DecZero =>
        Posted[1].amount = DecZero

\* a user transaction dated fee_date would be over a savings cap
FeeDateOverCap ==
    \/ InMonth(PreAcct.transactions, ExpectedFeeDate) >= 5
    \/ OnDay(PreAcct.transactions, ExpectedFeeDate) >= 2

\* C18: the postings of a close are exempt from the user-facing checks.  A
\* close is never rejected for a savings limit or for overdraft; on a savings
\* account that was never closed it succeeds and posts the Interest also when
\* fee_date's month holds 5 transactions or fee_date itself holds 2; on a
\* checking account a Fee that is due is posted also when it makes the
\* balance negative.
C18_CloseBypassesChecks ==
    UserClose =>
        /\ last.err.type \notin {"TransactionLimitError", "OverdrawError"}
        /\ /\ PreAcct.account_type = SAVINGS
           /\ FeeDateOverCap
           /\ ~HasPosting(PreAcct.transactions)
           => /\ last.err = NoError
              /\ Len(Posted) = 1
              /\ Posted[1].transaction_type = INTEREST
        /\ /\ CheckingClosed
           /\ DecLess(BalanceAfterInterest, DecOf(575, -2))
           => /\ Posted[Len(Posted)] = TheFee
              /\ IsNegative(PostAcct.balance)

\* C18 witness: a savings account with 5 transactions in the month of
\* fee_date was closed.
C18_Witness ==
    /\ UserClose
    /\ PreAcct.account_type = SAVINGS
    /\ InMonth(PreAcct.transactions, ExpectedFeeDate) >= 5
    /\ last.err = NoError
    /\ Len(Posted) = 1

\* C18, a savings account with 2 transactions on fee_date was closed.
C18_WitnessDay ==
    /\ UserClose
    /\ PreAcct.account_type = SAVINGS
    /\ OnDay(PreAcct.transactions, ExpectedFeeDate) >= 2
    /\ last.err = NoError

\* C18, a Fee took a checking balance below zero.
C18_WitnessFee ==
    /\ CheckingClosed
    /\ ~IsNegative(PreAcct.balance)
    /\ Posted[Len(Posted)] = TheFee
    /\ IsNegative(PostAcct.balance)

\* in a checking history every Interest that leaves the balance below 100 is
\* followed by a Fee of the same date
NoFeeMissing(acct) ==
    \A i \in 1..Len(acct.transactions) :
        /\ acct.transactions[i].transaction_type = INTEREST
        /\ DecLess(SumAmounts(acct.transactions, i), DecOf(100, 0))
        => /\ i < Len(acct.transactions)
           /\ acct.transactions[i + 1].transaction_type = FEE
           /\ acct.transactions[i + 1].date = acct.transactions[i].date

\* C19: a close is all-or-nothing.  If it raises, nothing was posted, and the
\* error does not come from a posting (no sequencing, limit or overdraft
\* error); if it returns, the Interest and, on a checking account where it is
\* due, the Fee are both posted; no state holds an Interest whose due Fee is
\* missing.
C19_AllOrNothing ==
    /\ UserClose =>
           \/ /\ last.err # NoError
              /\ PostAcct = PreAcct
              /\ last.err.detail # "sequence"
              /\ last.err.type \notin {"TransactionLimitError", "OverdrawError"}
           \/ /\ last.err = NoError
              /\ Len(Posted) \in {1, 2}
              /\ Posted[1].transaction_type = INTEREST
              /\ Len(Posted) = 2 => Posted[2].transaction_type = FEE
    /\ \A n \in DOMAIN accounts :
           accounts[n].account_type = CHECKING => NoFeeMissing(accounts[n])

\* C19 witness: a close of a checking account with a deposit posted the
\* Interest and the Fee.
C19_Witness ==
    /\ CheckingClosed
    /\ IsPositive(PreAcct.balance)
    /\ Len(Posted) = 2
    /\ Posted[1].transaction_type = INTEREST
    /\ Posted[2].transaction_type = FEE

\* C19, the sequencing boundary reached: the Interest was posted on the date
\* of the latest transaction.
C19_WitnessSameDate ==
    /\ UserClose
    /\ last.err = NoError
    /\ PreAcct.transactions # <<>>
    /\ LatestDate(PreAcct.transactions) = ExpectedFeeDate

\* C19, the failing close reached.
C19_WitnessRejected ==
    UserClose /\ DuplicateClose /\ PostAcct = PreAcct

(***************************************************************************)
(* The account map                                                         *)
(***************************************************************************)

\* C20: starting from an empty Bank, the keys of the account map are exactly
\* 1..num_accounts in every reachable state and account n is numbered n; a
\* successful open_account adds account num_accounts + 1 with balance 0 and an
\* empty history, a failed one consumes no number, no other call changes the
\* count, and no call removes or replaces an account.
C20_AccountNumbers ==
    /\ DOMAIN accounts = 1..num_accounts
    /\ \A n \in DOMAIN accounts : accounts[n].account_number = n
    /\ DOMAIN last.before.accounts \subseteq DOMAIN accounts
    /\ \A n \in DOMAIN last.before.accounts :
           accounts[n].account_type = last.before.accounts[n].account_type
    /\ last.op = "open_account" /\ last.err = NoError =>
           /\ num_accounts = last.before.num_accounts + 1
           /\ accounts[num_accounts] =
                  [account_type |-> from_string(last.account_type),
                   account_number |-> num_accounts,
                   balance |-> DecZero, transactions |-> <<>>]
           /\ \A n \in DOMAIN last.before.accounts :
                  accounts[n] = last.before.accounts[n]
    /\ ~(last.op = "open_account" /\ last.err = NoError) =>
           num_accounts = last.before.num_accounts

\* C20 witness: the third account was opened in a Bank whose first account
\* has a history.
C20_Witness ==
    /\ last.op = "open_account"
    /\ last.err = NoError
    /\ num_accounts = 3
    /\ accounts[1].transactions # <<>>
    /\ accounts[3].transactions = <<>>

\* C20, the failed open reached, between two accounts.
C20_WitnessFailed ==
    /\ last.op = "open_account"
    /\ last.err = ValueError
    /\ num_accounts = 2

(***************************************************************************)
(* The Bank's calls                                                        *)
(***************************************************************************)

\* the string is the name, each letter in either case
InAnyCase(str, name) ==
    /\ Len(str) = Len(name)
    /\ \A i \in 1..Len(name) :
           \E k \in 1..Len(LowerCase) :
               /\ LowerCase[k] = name[i]
               /\ str[i] \in {LowerCase[k], UpperCase[k]}

\* C21: open_account called with "checking" or "savings" written in any
\* letter case returns and adds one account of that type, a checking
\* account for "checking" and a savings account for "savings"; called with
\* any other string it raises ValueError and the Bank holds the accounts and
\* the count it held before.
C21_OpenByName ==
    last.op = "open_account" =>
        IF InAnyCase(last.account_type, Str_checking)
        THEN /\ last.err = NoError
             /\ DOMAIN accounts = DOMAIN last.before.accounts \cup {num_accounts}
             /\ num_accounts \notin DOMAIN last.before.accounts
             /\ accounts[num_accounts].account_type = CHECKING
        ELSE IF InAnyCase(last.account_type, Str_savings)
        THEN /\ last.err = NoError
             /\ DOMAIN accounts = DOMAIN last.before.accounts \cup {num_accounts}
             /\ num_accounts \notin DOMAIN last.before.accounts
             /\ accounts[num_accounts].account_type = SAVINGS
        ELSE /\ last.err = ValueError
             /\ accounts = last.before.accounts
             /\ num_accounts = last.before.num_accounts

\* C21 witness: "ChEcKiNg" opened a checking account next to a savings
\* account opened as "sAVINGs".
C21_Witness ==
    /\ last.op = "open_account"
    /\ last.account_type = Str_ChEcKiNg
    /\ last.err = NoError
    /\ num_accounts = 2
    /\ accounts[1].account_type = SAVINGS
    /\ accounts[2].account_type = CHECKING

\* C21, the rejected strings reached: a name cut short, a name with a letter
\* more, a padded name, the empty string and another word, each with an
\* account in the Bank.
C21_WitnessRejected ==
    /\ last.op = "open_account"
    /\ last.account_type = Str_padded
    /\ last.err = ValueError
    /\ num_accounts = 1

\* C22: select_account(None) returns and leaves nothing selected;
\* select_account(n) for a number n the Bank holds returns and leaves account
\* n selected; select_account(n) for a number the Bank does not hold raises
\* AttributeError("Invalid account number.") and the selection is the one
\* before the call.  In all three cases the account map, with every
\* account's history and balance, and the count are unchanged.
C22_SelectAccount ==
    last.op = "select_account" =>
        /\ accounts = last.before.accounts
        /\ num_accounts = last.before.num_accounts
        /\ IF last.account_number = None
           THEN last.err = NoError /\ selected = None
           ELSE IF last.account_number \in DOMAIN last.before.accounts
           THEN last.err = NoError /\ selected = last.account_number
           ELSE /\ last.err = AttributeError(InvalidAccountNumber)
                /\ selected = last.before.selected

\* C22 witness: an unknown number was refused while account 1, which has a
\* history, was selected.
C22_Witness ==
    /\ last.op = "select_account"
    /\ last.err # NoError
    /\ last.account_number \notin DOMAIN accounts
    /\ last.before.selected = 1
    /\ selected = 1
    /\ accounts[1].transactions # <<>>

\* C22, the selection cleared while an account with a history was selected.
C22_WitnessCleared ==
    /\ last.op = "select_account"
    /\ last.account_number = None
    /\ last.before.selected = 1
    /\ selected = None
    /\ accounts[1].transactions # <<>>

\* C22, the selection moved from one account to another.
C22_WitnessMoved ==
    /\ last.op = "select_account"
    /\ last.account_number = 2
    /\ last.before.selected = 1
    /\ selected = 2
    /\ accounts[1].transactions # <<>>

\* the last call was made on the Bank with nothing selected
Unselected == last.before.selected = None

\* C23, as claimed: with nothing selected, Bank.add_transaction,
\* Bank.list_transactions and Bank.interest_and_fees each raise the
\* no-account-selected error, AttributeError("This command requires that you
\* first select an account."), and change no account.
C23_Claimed ==
    /\ last.op \in {"add_transaction", "list_transactions", "interest_and_fees"}
    /\ Unselected
    => /\ last.err = AttributeError(RequiresSelection)
       /\ accounts = last.before.accounts

\* C23, the part that holds: with nothing selected each of the three calls
\* raises an AttributeError and leaves the accounts, the count and the
\* selection as they were; list_transactions and interest_and_fees raise the
\* no-account-selected error.
C23_NothingChanges ==
    /\ last.op \in {"add_transaction", "list_transactions", "interest_and_fees"}
    /\ Unselected
    => /\ last.err.type = "AttributeError"
       /\ last.op # "add_transaction" => last.err = AttributeError(RequiresSelection)
       /\ accounts = last.before.accounts
       /\ num_accounts = last.before.num_accounts
       /\ selected = None

\* C23, the failing case reached: add_transaction with nothing selected, in
\* a Bank that holds an account with a history.
C23_WitnessAdd ==
    /\ last.op = "add_transaction"
    /\ Unselected
    /\ last.err = AttributeError(NoneHasNoAccountNumber)
    /\ num_accounts = 1
    /\ accounts[1].transactions # <<>>

\* C23, interest_and_fees with nothing selected, in a Bank that holds an
\* account with a history.
C23_WitnessClose ==
    /\ last.op = "interest_and_fees"
    /\ Unselected
    /\ last.err = AttributeError(RequiresSelection)
    /\ num_accounts = 1
    /\ accounts[1].transactions # <<>>

\* the transaction a successful call appended last
Appended == PostAcct.transactions[Len(PostAcct.transactions)]

\* C24, as claimed: Bank.add_transaction records a Deposit exactly when
\* amount > 0 and a Withdrawal otherwise; an amount of 0 is a Withdrawal and
\* is refused with OverdrawError on a negative balance.
C24_Claimed ==
    UserAdd =>
        /\ last.err = NoError =>
               Appended.transaction_type =
                   IF IsPositive(last.amount) THEN DEPOSIT ELSE WITHDRAWAL
        /\ last.amount = DecZero /\ IsNegative(PreAcct.balance) =>
               last.err = OverdrawError

\* C24, amended: Bank.add_transaction records a Withdrawal exactly when
\* amount < 0 and a Deposit otherwise; an amount of 0 is a Deposit and is
\* never refused with OverdrawError.
C24_KindBySign ==
    UserAdd =>
        /\ last.err = NoError =>
               /\ Len(PostAcct.transactions) = Len(PreAcct.transactions) + 1
               /\ Appended.amount = last.amount
               /\ Appended.transaction_type =
                      IF IsNegative(last.amount) THEN WITHDRAWAL ELSE DEPOSIT
        /\ last.amount = DecZero => last.err # OverdrawError

\* C24 witness: an amount of 0 was accepted, as a Deposit, on a checking
\* account with a negative balance.
C24_Witness ==
    /\ UserAdd
    /\ last.amount = DecZero
    /\ last.err = NoError
    /\ PreAcct.account_type = CHECKING
    /\ IsNegative(PreAcct.balance)
    /\ Appended.transaction_type = DEPOSIT

\* C24, a Withdrawal recorded for a negative amount.
C24_WitnessWithdrawal ==
    /\ UserAdd
    /\ IsNegative(last.amount)
    /\ last.err = NoError
    /\ Appended.transaction_type = WITHDRAWAL

(***************************************************************************)
(* The history                                                             *)
(***************************************************************************)

\* s is an initial part of t
IsPrefix(s, t) == Len(s) <= Len(t) /\ SubSeq(t, 1, Len(s)) = s

\* the close found a fee due: a checking account whose balance after the
\* Interest posting is below 100
FeeDue ==
    PreAcct.account_type = CHECKING /\ DecLess(BalanceAfterInterest, DecOf(100, 0))

\* C25: across every call the history every account had before the call is
\* an initial part of its history after it, with each transaction's account
\* number, date, amount and kind as they were; a successful user
\* add_transaction appends exactly one transaction, a rejected call none, and
\* a successful apply_interest_and_fees exactly two on a checking account
\* with a fee due and exactly one otherwise.
C25_AppendOnly ==
    /\ \A n \in DOMAIN last.before.accounts :
           /\ n \in DOMAIN accounts
           /\ IsPrefix(last.before.accounts[n].transactions, accounts[n].transactions)
    /\ UserAdd => Len(Posted) = IF last.err = NoError THEN 1 ELSE 0
    /\ UserClose =>
           Len(Posted) = IF last.err # NoError THEN 0
                         ELSE IF FeeDue THEN 2 ELSE 1

\* C25 witness: a close appended an Interest and a Fee to a checking history
\* that already held an Interest of an earlier close.
C25_Witness ==
    /\ UserClose
    /\ last.err = NoError
    /\ PreAcct.account_type = CHECKING
    /\ HasPosting(PreAcct.transactions)
    /\ Len(Posted) = 2

\* C25, the closes that append one transaction: a savings account, and a
\* checking account with no fee due.
C25_WitnessSavings ==
    /\ UserClose
    /\ last.err = NoError
    /\ PreAcct.account_type = SAVINGS
    /\ PreAcct.transactions # <<>>
    /\ Len(Posted) = 1

C25_WitnessNoFee ==
    /\ UserClose
    /\ last.err = NoError
    /\ PreAcct.account_type = CHECKING
    /\ PreAcct.transactions # <<>>
    /\ Len(Posted) = 1

\* the last call was Bank.list_transactions on a selected account
UserList == last.op = "list_transactions" /\ last.before.selected # None

\* C26: list_transactions returns the transactions of the stored history,
\* each exactly once, in non-decreasing order of date, two transactions of
\* the same date in the order in which they were stored; the stored history
\* and the balance are as they were.
C26_ListSorted ==
    UserList =>
        LET n == Len(PreAcct.transactions)
        IN  /\ last.err = NoError
            /\ Len(last.out) = n
            /\ \E f \in [1..n -> 1..n] :
                   /\ \A k, l \in 1..n : k # l => f[k] # f[l]
                   /\ \A k \in 1..n : last.out[k] = PreAcct.transactions[f[k]]
                   /\ \A k, l \in 1..n :
                          k < l =>
                              /\ last.out[k].date <= last.out[l].date
                              /\ last.out[k].date = last.out[l].date => f[k] < f[l]
            /\ accounts = last.before.accounts
            /\ PostAcct.transactions = PreAcct.transactions
            /\ PostAcct.balance = PreAcct.balance

\* C26 witness: the list of a history of three transactions, two different
\* ones of one date and one of a later date.
C26_Witness ==
    /\ UserList
    /\ Len(last.out) = 3
    /\ last.out[1].date = last.out[2].date
    /\ last.out[1] # last.out[2]
    /\ last.out[2].date < last.out[3].date

\* the dates of a history never decrease along it
InDateOrder(transactions) ==
    \A i, j \in 1..Len(transactions) :
        i < j => transactions[i].date <= transactions[j].date

\* C27: in every reachable state the stored history of every account, in
\* insertion order, is non-decreasing by date, and list_transactions returns
\* the history in exactly its insertion order.
C27_StoredInDateOrder ==
    /\ \A n \in DOMAIN accounts : InDateOrder(accounts[n].transactions)
    /\ UserList => last.out = PreAcct.transactions

\* C27 witness: the list of a history in which a user transaction of a later
\* month follows the Interest and the Fee of a close.
C27_Witness ==
    /\ UserList
    /\ Len(last.out) = 3
    /\ last.out[1].transaction_type = INTEREST
    /\ last.out[2].transaction_type = FEE
    /\ last.out[3].transaction_type = DEPOSIT
    /\ last.out[2].date < last.out[3].date

\* C27, a backdated user transaction refused on a history that ends with the
\* postings of a close.
C27_WitnessRefused ==
    /\ UserAdd
    /\ last.err.type = "TransactionSequenceError"
    /\ HasPosting(PreAcct.transactions)
    /\ PostAcct.transactions = PreAcct.transactions

\* the call was a user add_transaction dated before a posting of an earlier
\* close of the account
BeforeClose ==
    /\ UserAdd
    /\ \E i \in 1..Len(PreAcct.transactions) :
           /\ PreAcct.transactions[i].transaction_type \in {INTEREST, FEE}
           /\ last.date < PreAcct.transactions[i].date

\* in a history, transaction j is a deposit or withdrawal stored after the
\* posting i of a close
UserAfterPosting(transactions, i, j) ==
    /\ i < j
    /\ transactions[i].transaction_type \in {INTEREST, FEE}
    /\ transactions[j].transaction_type \in {DEPOSIT, WITHDRAWAL}

\* C28, as claimed: after a successful close the latest date of the history
\* is fee_date; every later user add_transaction dated before fee_date is
\* rejected with the SequenceError; and a user transaction stored after a
\* close in the month of the close is dated the last day of that month.
C28_Claimed ==
    /\ UserClose /\ last.err = NoError =>
           LatestDate(PostAcct.transactions) = ExpectedFeeDate
    /\ BeforeClose =>
           /\ last.err.type = "TransactionSequenceError"
           /\ last.err.detail = "sequence"
    /\ \A n \in DOMAIN accounts :
           \A i, j \in 1..Len(accounts[n].transactions) :
               /\ UserAfterPosting(accounts[n].transactions, i, j)
               /\ InMonth(<<accounts[n].transactions[i]>>,
                          accounts[n].transactions[j].date) = 1
               => accounts[n].transactions[j].date =
                      EndOfMonth(accounts[n].transactions[i].date)

\* C28, amended: after a successful close the latest date of the history is
\* fee_date; every later user add_transaction dated before fee_date is
\* rejected and changes nothing, with the SequenceError that carries the
\* latest date unless the overdraft check or a savings limit has rejected it
\* first; no user transaction stored after a close is dated before its
\* fee_date, so in the month of a close of a non-empty account it is dated
\* the last day of that month.
C28_Watermark ==
    /\ UserClose /\ last.err = NoError =>
           LatestDate(PostAcct.transactions) = ExpectedFeeDate
    /\ BeforeClose =>
           /\ last.err # NoError
           /\ PostAcct = PreAcct
           /\ Overdrawing => last.err = OverdrawError
           /\ ~Overdrawing /\ OverLimit => last.err.type = "TransactionLimitError"
           /\ ~Overdrawing /\ ~OverLimit =>
                  last.err = TransactionSequenceError(
                                 LatestDate(PreAcct.transactions), "sequence")
    /\ \A n \in DOMAIN accounts :
           \A i, j \in 1..Len(accounts[n].transactions) :
               UserAfterPosting(accounts[n].transactions, i, j) =>
                   /\ accounts[n].transactions[j].date >=
                          accounts[n].transactions[i].date
                   /\ /\ i > 1
                      /\ accounts[n].transactions[i - 1].transaction_type
                             \in {DEPOSIT, WITHDRAWAL}
                      /\ InMonth(<<accounts[n].transactions[i]>>,
                                 accounts[n].transactions[j].date) = 1
                      => accounts[n].transactions[j].date =
                             EndOfMonth(accounts[n].transactions[i].date)

\* C28 witness: after a close of a non-empty account a deposit dated before
\* fee_date, in the closed month, was rejected with the SequenceError.
C28_Witness ==
    /\ BeforeClose
    /\ IsPositive(last.amount)
    /\ PreAcct.transactions[1].transaction_type = DEPOSIT
    /\ last.err = TransactionSequenceError(date(2024, 1, 31), "sequence")
    /\ last.date = date(2024, 1, 25)

\* C28, a user transaction accepted in the closed month on its last day.
C28_WitnessLastDay ==
    /\ UserAdd
    /\ last.err = NoError
    /\ HasPosting(PreAcct.transactions)
    /\ PreAcct.transactions[1].transaction_type = DEPOSIT
    /\ last.date = date(2024, 1, 31)
    /\ LatestDate(PreAcct.transactions) = date(2024, 1, 31)

\* C28, the cases the claim misses: a withdrawal dated before fee_date that
\* is rejected with OverdrawError, a transaction rejected by a savings limit,
\* and a deposit accepted after today in the month in which an empty account
\* was closed.
C28_WitnessOverdraw ==
    /\ BeforeClose
    /\ last.err = OverdrawError

C28_WitnessLimit ==
    /\ BeforeClose
    /\ last.err.type = "TransactionLimitError"

C28_WitnessEmptyClose ==
    /\ UserAdd
    /\ last.err = NoError
    /\ PreAcct.transactions # <<>>
    /\ PreAcct.transactions[1].transaction_type = INTEREST
    /\ PreAcct.transactions[1].date = date(2024, 1, 20)
    /\ last.date = date(2024, 1, 25)

(***************************************************************************)
(* Savings accounts                                                        *)
(***************************************************************************)

\* C29: in every state reachable through Bank calls the balance of a savings
\* account is greater than or equal to 0; its history holds no Fee, no
\* negative Deposit and no negative Interest, and a withdrawal that would
\* take the balance below 0 is rejected.
C29_SavingsNeverNegative ==
    /\ \A n \in DOMAIN accounts :
           accounts[n].account_type = SAVINGS =>
               /\ ~IsNegative(accounts[n].balance)
               /\ \A i \in 1..Len(accounts[n].transactions) :
                      LET t == accounts[n].transactions[i]
                      IN  /\ t.transaction_type # FEE
                          /\ t.transaction_type \in {DEPOSIT, INTEREST} =>
                                 ~IsNegative(t.amount)
    /\ SavingsAdd /\ Overdrawing => last.err = OverdrawError /\ PostAcct = PreAcct

\* C29 witness: a withdrawal larger than the balance was rejected on a
\* savings account that holds a deposit, a withdrawal and the Interest of a
\* close, the balance being the Interest alone.
C29_Witness ==
    /\ SavingsAdd
    /\ last.err = OverdrawError
    /\ HasPosting(PreAcct.transactions)
    /\ IsPositive(PreAcct.balance)
    /\ DecLess(PreAcct.balance, DecOf(1, 0))
    /\ PostAcct.balance = PreAcct.balance

\* C29, a withdrawal accepted that leaves a balance of exactly 0.
C29_WitnessToZero ==
    /\ SavingsAdd
    /\ last.err = NoError
    /\ IsNegative(last.amount)
    /\ PostAcct.balance = DecZero

\* the transactions of a history of the given kinds
OfKinds(transactions, kinds) ==
    SelectSeq(transactions, LAMBDA t : t.transaction_type \in kinds)

\* C30: in every reachable state the history of a savings account holds at
\* most 3 transactions on any single date and at most 6 in any calendar
\* month: at most 2 deposits and withdrawals on a date and 5 in a month, and
\* at most one Interest in a month.
C30_HistoryCaps ==
    \A n \in DOMAIN accounts :
        accounts[n].account_type = SAVINGS =>
            LET t == accounts[n].transactions
                user == OfKinds(t, {DEPOSIT, WITHDRAWAL})
                posted == OfKinds(t, {INTEREST, FEE})
            IN  \A i \in 1..Len(t) :
                    /\ OnDay(t, t[i].date) <= 3
                    /\ InMonth(t, t[i].date) <= 6
                    /\ OnDay(user, t[i].date) <= 2
                    /\ InMonth(user, t[i].date) <= 5
                    /\ InMonth(posted, t[i].date) <= 1

\* C30 witness: a history with 6 transactions in January, 3 of them on the
\* 31st, and a deposit on the 31st just refused.
C30_Witness ==
    /\ SavingsAdd
    /\ last.err.type = "TransactionLimitError"
    /\ last.date = date(2024, 1, 31)
    /\ InMonth(PostAcct.transactions, date(2024, 1, 31)) = 6
    /\ OnDay(PostAcct.transactions, date(2024, 1, 31)) = 3

\* C30, the Interest counted by the caps: after the close of a history with
\* one deposit on the 31st, a second deposit of that date was refused.
C30_WitnessAfterClose ==
    /\ SavingsAdd
    /\ last.err = TransactionLimitError("daily")
    /\ last.date = date(2024, 1, 31)
    /\ PreAcct.transactions[Len(PreAcct.transactions)].transaction_type = INTEREST
    /\ OnDay(PreAcct.transactions, date(2024, 1, 31)) = 2

(***************************************************************************)
(* The selection                                                           *)
(***************************************************************************)

\* C31: in every reachable state the Bank's selection is either None or an
\* account the account map holds, the one stored under the selected
\* account's own number; no call unselects or replaces the account that was
\* selected, except select_account.
C31_SelectionInMap ==
    /\ selected # None =>
           /\ selected \in DOMAIN accounts
           /\ accounts[selected].account_number = selected
    /\ last.op # "select_account" => selected = last.before.selected

\* C31 witness: account 1 is selected and has just been closed, in a Bank
\* that holds a second account.
C31_Witness ==
    /\ selected = 1
    /\ num_accounts = 2
    /\ last.op = "interest_and_fees"
    /\ last.err = NoError
    /\ accounts[1].transactions # <<>>

\* C31, the selection kept by a refused select_account of a number the Bank
\* does not hold.
C31_WitnessRefused ==
    /\ selected = 2
    /\ last.op = "select_account"
    /\ last.account_number = 3
    /\ last.err # NoError

\* C31, nothing selected in a Bank that holds accounts, after
\* select_account(None).
C31_WitnessNone ==
    /\ selected = None
    /\ num_accounts = 2
    /\ last.op = "select_account"
    /\ last.before.selected = 2

\* every account the Bank held before the last call, except the one given,
\* is as it was
OthersUnchanged(except) ==
    \A n \in DOMAIN last.before.accounts :
        n # except =>
            /\ n \in DOMAIN accounts
            /\ accounts[n] = last.before.accounts[n]

\* C32: Bank.add_transaction and Bank.interest_and_fees, whether they return
\* or raise, leave the history and balance of every account other than the
\* selected one, the keys of the account map, num_accounts and the selection
\* as they were; open_account leaves the selection and every account the
\* Bank already held as they were.
C32_OnlySelectedChanges ==
    /\ last.op \in {"add_transaction", "interest_and_fees"} =>
           /\ OthersUnchanged(last.before.selected)
           /\ DOMAIN accounts = DOMAIN last.before.accounts
           /\ num_accounts = last.before.num_accounts
           /\ selected = last.before.selected
    /\ last.op = "open_account" =>
           /\ OthersUnchanged(None)
           /\ selected = last.before.selected

\* C32 witness: a deposit was added to the selected account 1 while account
\* 2 holds a history of its own.
C32_Witness ==
    /\ UserAdd
    /\ last.err = NoError
    /\ last.before.selected = 1
    /\ PostAcct # PreAcct
    /\ num_accounts = 2
    /\ accounts[2].transactions # <<>>

\* C32, a close of the selected account 2 while account 1 holds a history.
C32_WitnessClose ==
    /\ UserClose
    /\ last.err = NoError
    /\ last.before.selected = 2
    /\ PostAcct # PreAcct
    /\ accounts[1].transactions # <<>>

\* C32, a rejected withdrawal on the selected account 2 while account 1
\* holds a history.
C32_WitnessRejected ==
    /\ UserAdd
    /\ last.err = OverdrawError
    /\ last.before.selected = 2
    /\ accounts[1].transactions # <<>>

\* C32, a second account opened while account 1 is selected and holds a
\* history.
C32_WitnessOpen ==
    /\ last.op = "open_account"
    /\ last.err = NoError
    /\ num_accounts = 2
    /\ selected = 1
    /\ accounts[1].transactions # <<>>

=============================================================================
